---- MODULE Spec2Model ----
(***************************************************************************)
(* Mifare Classic memory / access-control model of src/app/memory/page.tsx *)
(* (second copy of the page, lines 1920-3972; of the first copy, the       *)
(* decoder of lines 688-787) and of the playback of                        *)
(* src/app/authentication/page.tsx: the value-block codec                  *)
(* (createValueBlock / parseValueBlock), the access-bits codec             *)
(* (generateOfficialAccessBits / generateAccessBitsByBlocks /              *)
(* createAccessBitsFromPermissions / validateAccessBits /                  *)
(* parseAccessBitsByBlock with its two tables), the memory layout          *)
(* memoryData and the block / sector selection of MemoryPage.              *)
(*                                                                         *)
(* Conventions of the model:                                               *)
(*  - a JavaScript string is a sequence of one-character strings;          *)
(*  - the permission texts of the tables are written in ASCII:             *)
(*    "Forbidden" stands for the table text U+7981 U+6B62 and "Error" for  *)
(*    the fallback text U+932F U+8AA4; "Key A", "Key B" and "Key A|Key B"  *)
(*    are the source's own texts; the free-text description fields are not *)
(*    modelled;                                                            *)
(*  - a JavaScript number that may exceed 31 bits is a record [hi, lo]     *)
(*    standing for hi * 65536 + lo with lo in 0..65535 (unique for every   *)
(*    integer), because TLC evaluates integers in 32 bits.                 *)
(***************************************************************************)
EXTENDS Integers, Sequences, FiniteSets, TLC

VARIABLES
    pc,          \* position of the caller: "call", "field", "returned", "threw", "parsed", ...
    input,       \* the arguments of the call under way (a record tagged by fn)
    accessBits,  \* the 6-character access-bits string in hand (<<>> before one exists)
    error,       \* the Error thrown by the last call (NoError when none)
    bitAnalysis, \* result of parseAccessBitsByBlock (NoAnalysis before the call)
    valueData,   \* the 32-character block string in hand (<<>> before one exists)
    valueInfo,   \* result of parseValueBlock (NoInfo before the call)
    flipped,     \* the bit of the string in hand that was flipped in storage (-1 when none)
    validation,  \* result of validateAccessBits (NoValidation before the call)
    alternative, \* what a second encoder returned for the same codes (<<>> before the call)
    selectedBlock,  \* MemoryPage: index into memoryData of the selected block
    selectedSector, \* MemoryPage: number of the selected sector
    earlierAnalysis, \* result of the first copy of parseAccessBitsByBlock (NoAnalysis before)
    replaced,    \* the slot and code replaced before encoding again (NoReplacement when none)
    alternativeAnalysis, \* result of parseAccessBitsByBlock(alternative) (NoAnalysis before)
    currentStep,   \* AuthenticationPage: index into authSteps of the step shown
    isPlaying,     \* AuthenticationPage: playback is on
    interval,      \* AuthenticationPage: id of the interval the last effect set (0 when none)
    timers,        \* number of setInterval calls so far (the last id handed out)
    effectPending  \* AuthenticationPage: a render changed [isPlaying, currentStep] and the
                   \* effect has not run yet

authVars == <<currentStep, isPlaying, interval, timers, effectPending>>

vars == <<pc, input, accessBits, error, bitAnalysis, valueData, valueInfo, flipped,
          validation, alternative, selectedBlock, selectedSector, earlierAnalysis, replaced,
          alternativeAnalysis, authVars>>

NoError == [thrown |-> FALSE]
NoAnalysis == [parsed |-> FALSE]
NoInfo == [parsed |-> FALSE]
NoValidation == [checked |-> FALSE]
NoReplacement == [replaced |-> FALSE]

\* AuthenticationPage after its first render: useState(0), useState(false), the
\* effect of the mount still to run
Mounted ==
    /\ currentStep = 0
    /\ isPlaying = FALSE
    /\ interval = 0
    /\ timers = 0
    /\ effectPending = TRUE

-----------------------------------------------------------------------------
(* JavaScript primitives used by the codecs *)

RECURSIVE Pow2(_)
Pow2(n) == IF n = 0 THEN 1 ELSE 2 * Pow2(n - 1)

\* a << k on small non-negative operands (no bit leaves the 32-bit word here)
ShiftLeft(a, k) == a * Pow2(k)

\* a >> k on a 32-bit signed operand: arithmetic shift, i.e. floor division
ShiftRight(a, k) == a \div Pow2(k)

\* a & (2^k - 1): the low k bits of the two's-complement pattern
LowBits(a, k) == a % Pow2(k)

RECURSIVE BitOrN(_, _, _)
BitOrN(a, b, n) ==
    IF n = 0 THEN 0
    ELSE (IF a % 2 = 1 \/ b % 2 = 1 THEN 1 ELSE 0) + 2 * BitOrN(a \div 2, b \div 2, n - 1)

\* a | b on byte-sized operands
BitOr(a, b) == BitOrN(a, b, 8)

RECURSIVE BitXorN(_, _, _)
BitXorN(a, b, n) ==
    IF n = 0 THEN 0
    ELSE (((a % 2) + (b % 2)) % 2) + 2 * BitXorN(a \div 2, b \div 2, n - 1)

HexLower == <<"0", "1", "2", "3", "4", "5", "6", "7", "8", "9", "a", "b", "c", "d", "e", "f">>
HexUpper == <<"0", "1", "2", "3", "4", "5", "6", "7", "8", "9", "A", "B", "C", "D", "E", "F">>

\* Number.prototype.toString(16) of a non-negative integer: lower case, no leading zero
RECURSIVE toString16(_)
toString16(n) ==
    IF n < 16 THEN <<HexLower[n + 1]>>
    ELSE toString16(n \div 16) \o <<HexLower[(n % 16) + 1]>>

\* String.prototype.padStart(len, ch)
RECURSIVE padStart(_, _, _)
padStart(s, len, ch) == IF Len(s) >= len THEN s ELSE padStart(<<ch>> \o s, len, ch)

UpperOf(ch) ==
    IF \E i \in 11..16 : HexLower[i] = ch
    THEN HexUpper[CHOOSE i \in 11..16 : HexLower[i] = ch]
    ELSE ch

\* String.prototype.toUpperCase()
toUpperCase(s) == [i \in 1..Len(s) |-> UpperOf(s[i])]

\* String.prototype.substr(start, length)
substr(s, start, length) ==
    SubSeq(s, start + 1, IF start + length > Len(s) THEN Len(s) ELSE start + length)

IsHexDigit(ch) == \E i \in 1..16 : HexLower[i] = ch \/ HexUpper[i] = ch

DigitValue(ch) == (CHOOSE i \in 1..16 : HexLower[i] = ch \/ HexUpper[i] = ch) - 1

\* NaN, as a number no parseInt of an unsigned text returns
NaN == 0 - 1

RECURSIVE ParsePrefix(_, _, _)
ParsePrefix(s, i, acc) ==
    IF i > Len(s) \/ ~IsHexDigit(s[i]) THEN acc
    ELSE ParsePrefix(s, i + 1, acc * 16 + DigitValue(s[i]))

\* parseInt(s, 16) on a string without sign, blank or 0x prefix: the value of the
\* longest prefix of hex digits (either case), NaN when the first character is none
parseInt16(s) ==
    IF Len(s) = 0 \/ ~IsHexDigit(s[1]) THEN NaN ELSE ParsePrefix(s, 1, 0)

\* parseInt(s) of a one-character string: its decimal digit, NaN for any other character
parseInt10(s) ==
    IF Len(s) = 1 /\ \E i \in 1..10 : HexLower[i] = s[1]
    THEN (CHOOSE i \in 1..10 : HexLower[i] = s[1]) - 1
    ELSE NaN

\* byte.toString(16).padStart(2, '0').toUpperCase()
ByteToHex(byte) == toUpperCase(padStart(toString16(byte), 2, "0"))

\* /^[01]{3}$/.test(s)
IsC1C2C3(s) == Len(s) = 3 /\ \A i \in 1..3 : s[i] \in {"0", "1"}

\* /^[0-9A-Fa-f]{6}$/.test(s)
IsHex6(s) == Len(s) = 6 /\ \A i \in 1..6 : IsHexDigit(s[i])

-----------------------------------------------------------------------------
(* Access-bits encoders *)

Returned(v) == [thrown |-> FALSE, value |-> v]

\* generateOfficialAccessBits(c1c2c3): one C1C2C3 code for all four blocks
generateOfficialAccessBits(c1c2c3) ==
    IF ~IsC1C2C3(c1c2c3)
    THEN [thrown |-> TRUE, error |-> [kind |-> "invalid C1C2C3", received |-> c1c2c3]]
    ELSE
        LET c1 == parseInt10(<<c1c2c3[1]>>)
            c2 == parseInt10(<<c1c2c3[2]>>)
            c3 == parseInt10(<<c1c2c3[3]>>)
            notC1 == 1 - c1
            notC2 == 1 - c2
            notC3 == 1 - c3
            Nibble(hi, lo) ==
                BitOr(BitOr(BitOr(ShiftLeft(hi, 7), ShiftLeft(hi, 6)),
                            BitOr(ShiftLeft(hi, 5), ShiftLeft(hi, 4))),
                      BitOr(BitOr(ShiftLeft(lo, 3), ShiftLeft(lo, 2)),
                            BitOr(ShiftLeft(lo, 1), ShiftLeft(lo, 0))))
            byte6 == Nibble(notC2, notC1)
            byte7 == Nibble(c1, notC3)
            byte8 == Nibble(c3, c2)
        IN  Returned(ByteToHex(byte6) \o ByteToHex(byte7) \o ByteToHex(byte8))

\* the range test letting 8 through
OutOfRangeOffByOne(b) == b < 0 \/ b > 8

\* the range test of generateAccessBitsByBlocks (inputs of the model are integers,
\* so Number.isInteger holds)
OutOfRange(b) == b < 0 \/ b > 7

\* toBinary with c1 taken from bit 0 and c3 from bit 2
toBinaryReversed(value) ==
    [c1 |-> LowBits(value, 1),
     c2 |-> LowBits(ShiftRight(value, 1), 1),
     c3 |-> LowBits(ShiftRight(value, 2), 1)]

\* toBinary(value) inside generateAccessBitsByBlocks
toBinary(value) ==
    [c1 |-> LowBits(ShiftRight(value, 2), 1),
     c2 |-> LowBits(ShiftRight(value, 1), 1),
     c3 |-> LowBits(value, 1)]

\* the packing with block 0 at the high end of each nibble
PackByteBlock0High(x, y) ==
    BitOr(BitOr(BitOr(ShiftLeft(x[1], 7), ShiftLeft(x[2], 6)),
                BitOr(ShiftLeft(x[3], 5), ShiftLeft(x[4], 4))),
          BitOr(BitOr(ShiftLeft(y[1], 3), ShiftLeft(y[2], 2)),
                BitOr(ShiftLeft(y[3], 1), ShiftLeft(y[4], 0))))

\* (x3 << 7) | (x2 << 6) | (x1 << 5) | (x0 << 4) | (y3 << 3) | (y2 << 2) | (y1 << 1) | (y0 << 0)
PackByte(x, y) ==
    BitOr(BitOr(BitOr(ShiftLeft(x[4], 7), ShiftLeft(x[3], 6)),
                BitOr(ShiftLeft(x[2], 5), ShiftLeft(x[1], 4))),
          BitOr(BitOr(ShiftLeft(y[4], 3), ShiftLeft(y[3], 2)),
                BitOr(ShiftLeft(y[2], 1), ShiftLeft(y[1], 0))))

\* the bytes with C3 stored in byte 7 as it is, not inverted
AccessBytesC3NotInverted(blocks) ==
    LET bits == [i \in 1..4 |-> toBinary(blocks[i])]
        C1 == [i \in 1..4 |-> bits[i].c1]
        C2 == [i \in 1..4 |-> bits[i].c2]
        C3 == [i \in 1..4 |-> bits[i].c3]
        notC1 == [i \in 1..4 |-> 1 - bits[i].c1]
        notC2 == [i \in 1..4 |-> 1 - bits[i].c2]
    IN  [byte6 |-> PackByte(notC2, notC1),
         byte7 |-> PackByte(C1, C3),
         byte8 |-> PackByte(C3, C2)]

\* the bytes with the two nibbles of byte 7 exchanged
AccessBytesByte7Swapped(blocks) ==
    LET bits == [i \in 1..4 |-> toBinary(blocks[i])]
        C1 == [i \in 1..4 |-> bits[i].c1]
        C2 == [i \in 1..4 |-> bits[i].c2]
        C3 == [i \in 1..4 |-> bits[i].c3]
        notC1 == [i \in 1..4 |-> 1 - bits[i].c1]
        notC2 == [i \in 1..4 |-> 1 - bits[i].c2]
        notC3 == [i \in 1..4 |-> 1 - bits[i].c3]
    IN  [byte6 |-> PackByte(notC2, notC1),
         byte7 |-> PackByte(notC3, C1),
         byte8 |-> PackByte(C3, C2)]

\* the three bytes built by generateAccessBitsByBlocks from the four codes
\* (index i + 1 of a tuple is block i)
AccessBytes(blocks) ==
    LET bits == [i \in 1..4 |-> toBinary(blocks[i])]
        C1 == [i \in 1..4 |-> bits[i].c1]
        C2 == [i \in 1..4 |-> bits[i].c2]
        C3 == [i \in 1..4 |-> bits[i].c3]
        notC1 == [i \in 1..4 |-> 1 - bits[i].c1]
        notC2 == [i \in 1..4 |-> 1 - bits[i].c2]
        notC3 == [i \in 1..4 |-> 1 - bits[i].c3]
    IN  [byte6 |-> PackByte(notC2, notC1),
         byte7 |-> PackByte(C1, notC3),
         byte8 |-> PackByte(C3, C2)]

\* generateAccessBitsByBlocks(block0, block1, block2, block3)
generateAccessBitsByBlocks(block0, block1, block2, block3) ==
    LET blocks == <<block0, block1, block2, block3>>
    IN  IF \E i \in 1..4 : OutOfRange(blocks[i])
        THEN LET i == CHOOSE k \in 1..4 :
                          OutOfRange(blocks[k]) /\ \A j \in 1..(k - 1) : ~OutOfRange(blocks[j])
             IN  [thrown |-> TRUE,
                  error |-> [kind |-> "block out of range", index |-> i - 1,
                             received |-> blocks[i]]]
        ELSE LET b == AccessBytes(blocks)
             IN  Returned(ByteToHex(b.byte6) \o ByteToHex(b.byte7) \o ByteToHex(b.byte8))

\* (b7 << 7) | (b6 << 6) | (b5 << 5) | (b4 << 4) | (b3 << 3) | (b2 << 2) | (b1 << 1) | b0
Or8(b7, b6, b5, b4, b3, b2, b1, b0) ==
    BitOr(BitOr(BitOr(ShiftLeft(b7, 7), ShiftLeft(b6, 6)),
                BitOr(ShiftLeft(b5, 5), ShiftLeft(b4, 4))),
          BitOr(BitOr(ShiftLeft(b3, 3), ShiftLeft(b2, 2)),
                BitOr(ShiftLeft(b1, 1), b0)))

\* byte6, byte7, byte8 of createAccessBitsFromPermissions
PermissionBytes(block0, block1, block2, trailer) ==
    [byte6 |-> Or8(1 - trailer.c2, 1 - block2.c2, 1 - block1.c2, 1 - block0.c2,
                   1 - trailer.c1, 1 - block2.c1, 1 - block1.c1, 1 - block0.c1),
     byte7 |-> Or8(trailer.c1, block2.c1, block1.c1, block0.c1,
                   1 - trailer.c3, 1 - block2.c3, 1 - block1.c3, 1 - block0.c3),
     byte8 |-> Or8(trailer.c3, block2.c3, block1.c3, block0.c3,
                   trailer.c2, block2.c2, block1.c2, block0.c2)]

\* the three bytes printed as toString(16) leaves them, in lower case
HexOfBytesLowerCase(b) ==
    padStart(toString16(b.byte6), 2, "0") \o padStart(toString16(b.byte7), 2, "0")
        \o padStart(toString16(b.byte8), 2, "0")

\* byte.toString(16).padStart(2, '0').toUpperCase() of the three bytes, joined
HexOfBytes(b) == ByteToHex(b.byte6) \o ByteToHex(b.byte7) \o ByteToHex(b.byte8)

\* createAccessBitsFromPermissions(block0, block1, block2, trailer), each argument
\* a record {c1, c2, c3} of bits
createAccessBitsFromPermissions(block0, block1, block2, trailer) ==
    HexOfBytes(PermissionBytes(block0, block1, block2, trailer))

-----------------------------------------------------------------------------
(* Access-bits validation, permission tables and decoder *)

\* one turn of the loop of validateAccessBits: the inconsistencies of block blockNum
CheckBlock(byte6, byte7, byte8, blockNum) ==
    LET c1 == LowBits(ShiftRight(byte7, 4 + blockNum), 1)
        c2 == LowBits(ShiftRight(byte8, blockNum), 1)
        c3 == LowBits(ShiftRight(byte8, 4 + blockNum), 1)
        notC1 == LowBits(ShiftRight(byte6, blockNum), 1)
        notC2 == LowBits(ShiftRight(byte6, 4 + blockNum), 1)
        notC3 == LowBits(ShiftRight(byte7, blockNum), 1)
    IN  (IF c1 # 1 - notC1 THEN <<[block |-> blockNum, bit |-> "C1"]>> ELSE <<>>)
        \o (IF c2 # 1 - notC2 THEN <<[block |-> blockNum, bit |-> "C2"]>> ELSE <<>>)
        \o (IF c3 # 1 - notC3 THEN <<[block |-> blockNum, bit |-> "C3"]>> ELSE <<>>)

\* the end of validateAccessBits: the verdict for the collected errors
Verdict(errors) ==
    IF Len(errors) > 0
    THEN [valid |-> FALSE, error |-> "inconsistent", details |-> errors]
    ELSE [valid |-> TRUE, error |-> "", details |-> <<>>]

\* the consistency loop stopping before the trailer (blockNum < 3)
CheckBytesDataBlocksOnly(byte6, byte7, byte8) ==
    Verdict(CheckBlock(byte6, byte7, byte8, 0) \o CheckBlock(byte6, byte7, byte8, 1)
            \o CheckBlock(byte6, byte7, byte8, 2))

\* the consistency loop of validateAccessBits over the three bytes
CheckBytes(byte6, byte7, byte8) ==
    Verdict(CheckBlock(byte6, byte7, byte8, 0) \o CheckBlock(byte6, byte7, byte8, 1)
            \o CheckBlock(byte6, byte7, byte8, 2) \o CheckBlock(byte6, byte7, byte8, 3))

\* the byte reads of validateAccessBits: parseInt(hex.substr(2 * i, 2), 16)
CheckHex(hex) ==
    CheckBytes(parseInt16(substr(hex, 0, 2)), parseInt16(substr(hex, 2, 2)),
               parseInt16(substr(hex, 4, 2)))

\* validateAccessBits(accessBits); details lists the inconsistent complement bits
\* in the order the loop pushes them
validateAccessBits(ab) ==
    IF Len(ab) # 6 THEN [valid |-> FALSE, error |-> "length", details |-> <<>>]
    ELSE IF ~IsHex6(ab) THEN [valid |-> FALSE, error |-> "not hex", details |-> <<>>]
    ELSE CheckHex(toUpperCase(ab))

TrailerRow(k, ar, aw, br, bw, cr, cw) ==
    [key |-> k,
     keyA |-> [read |-> ar, write |-> aw],
     accessBits |-> [read |-> br, write |-> bw],
     keyB |-> [read |-> cr, write |-> cw]]

\* Table 7 with the Access Bits write column of rows 011 and 100 exchanged
TrailerTableRowsExchanged ==
    { TrailerRow(<<"0", "0", "0">>, "Forbidden", "Key A", "Key A", "Forbidden", "Key A", "Key A"),
      TrailerRow(<<"0", "0", "1">>, "Forbidden", "Key A", "Key A", "Key A", "Key A", "Key A"),
      TrailerRow(<<"0", "1", "0">>, "Forbidden", "Forbidden", "Key A", "Forbidden", "Key A", "Forbidden"),
      TrailerRow(<<"0", "1", "1">>, "Forbidden", "Key B", "Key A|Key B", "Forbidden", "Forbidden", "Key B"),
      TrailerRow(<<"1", "0", "0">>, "Forbidden", "Key B", "Key A|Key B", "Key B", "Forbidden", "Key B"),
      TrailerRow(<<"1", "0", "1">>, "Forbidden", "Forbidden", "Key A|Key B", "Key B", "Forbidden", "Forbidden"),
      TrailerRow(<<"1", "1", "0">>, "Forbidden", "Forbidden", "Key A|Key B", "Forbidden", "Forbidden", "Forbidden"),
      TrailerRow(<<"1", "1", "1">>, "Forbidden", "Forbidden", "Key A|Key B", "Forbidden", "Forbidden", "Forbidden") }

\* Table 7: sector trailer access conditions, keyed by the C1C2C3 string
SECTOR_TRAILER_ACCESS_CONDITIONS ==
    { TrailerRow(<<"0", "0", "0">>, "Forbidden", "Key A", "Key A", "Forbidden", "Key A", "Key A"),
      TrailerRow(<<"0", "0", "1">>, "Forbidden", "Key A", "Key A", "Key A", "Key A", "Key A"),
      TrailerRow(<<"0", "1", "0">>, "Forbidden", "Forbidden", "Key A", "Forbidden", "Key A", "Forbidden"),
      TrailerRow(<<"0", "1", "1">>, "Forbidden", "Key B", "Key A|Key B", "Key B", "Forbidden", "Key B"),
      TrailerRow(<<"1", "0", "0">>, "Forbidden", "Key B", "Key A|Key B", "Forbidden", "Forbidden", "Key B"),
      TrailerRow(<<"1", "0", "1">>, "Forbidden", "Forbidden", "Key A|Key B", "Key B", "Forbidden", "Forbidden"),
      TrailerRow(<<"1", "1", "0">>, "Forbidden", "Forbidden", "Key A|Key B", "Forbidden", "Forbidden", "Forbidden"),
      TrailerRow(<<"1", "1", "1">>, "Forbidden", "Forbidden", "Key A|Key B", "Forbidden", "Forbidden", "Forbidden") }

DataRow(k, r, w, i, d) ==
    [key |-> k, read |-> r, write |-> w, increment |-> i, decrement |-> d]

\* Table 6 with increment and decrement of row 001 exchanged
DataTableRow1Exchanged ==
    { DataRow(<<"0", "0", "0">>, "Key A|Key B", "Key A|Key B", "Key A|Key B", "Key A|Key B"),
      DataRow(<<"0", "0", "1">>, "Key A|Key B", "Forbidden", "Key A|Key B", "Forbidden"),
      DataRow(<<"0", "1", "0">>, "Key A|Key B", "Forbidden", "Forbidden", "Forbidden"),
      DataRow(<<"0", "1", "1">>, "Key B", "Key B", "Forbidden", "Forbidden"),
      DataRow(<<"1", "0", "0">>, "Key A|Key B", "Key B", "Forbidden", "Forbidden"),
      DataRow(<<"1", "0", "1">>, "Key B", "Forbidden", "Forbidden", "Forbidden"),
      DataRow(<<"1", "1", "0">>, "Key A|Key B", "Key B", "Key B", "Key A|Key B"),
      DataRow(<<"1", "1", "1">>, "Forbidden", "Forbidden", "Forbidden", "Forbidden") }

\* Table 6: data block access conditions, keyed by the C1C2C3 string
DATA_BLOCK_ACCESS_CONDITIONS ==
    { DataRow(<<"0", "0", "0">>, "Key A|Key B", "Key A|Key B", "Key A|Key B", "Key A|Key B"),
      DataRow(<<"0", "0", "1">>, "Key A|Key B", "Forbidden", "Forbidden", "Key A|Key B"),
      DataRow(<<"0", "1", "0">>, "Key A|Key B", "Forbidden", "Forbidden", "Forbidden"),
      DataRow(<<"0", "1", "1">>, "Key B", "Key B", "Forbidden", "Forbidden"),
      DataRow(<<"1", "0", "0">>, "Key A|Key B", "Key B", "Forbidden", "Forbidden"),
      DataRow(<<"1", "0", "1">>, "Key B", "Forbidden", "Forbidden", "Forbidden"),
      DataRow(<<"1", "1", "0">>, "Key A|Key B", "Key B", "Key B", "Key A|Key B"),
      DataRow(<<"1", "1", "1">>, "Forbidden", "Forbidden", "Forbidden", "Forbidden") }

\* the modes object with the default entry built from code 001
ModesDefaultFromCode1 ==
    [default |-> generateOfficialAccessBits(<<"0", "0", "1">>).value,
     editable |-> generateOfficialAccessBits(<<"0", "0", "1">>).value,
     readonly |-> generateOfficialAccessBits(<<"0", "1", "0">>).value,
     keyb_write |-> generateOfficialAccessBits(<<"0", "1", "1">>).value,
     keyb_control |-> generateOfficialAccessBits(<<"1", "0", "0">>).value,
     locked_keyb |-> generateOfficialAccessBits(<<"1", "0", "1">>).value,
     fully_locked |-> generateOfficialAccessBits(<<"1", "1", "0">>).value,
     permanent_lock |-> generateOfficialAccessBits(<<"1", "1", "1">>).value]

\* the modes object of generateValidAccessBits
Modes ==
    [default |-> generateOfficialAccessBits(<<"0", "0", "0">>).value,
     editable |-> generateOfficialAccessBits(<<"0", "0", "1">>).value,
     readonly |-> generateOfficialAccessBits(<<"0", "1", "0">>).value,
     keyb_write |-> generateOfficialAccessBits(<<"0", "1", "1">>).value,
     keyb_control |-> generateOfficialAccessBits(<<"1", "0", "0">>).value,
     locked_keyb |-> generateOfficialAccessBits(<<"1", "0", "1">>).value,
     fully_locked |-> generateOfficialAccessBits(<<"1", "1", "0">>).value,
     permanent_lock |-> generateOfficialAccessBits(<<"1", "1", "1">>).value]

\* modes[mode] || modes['default']
OrDefault(modes, mode) == IF mode \in DOMAIN modes THEN modes[mode] ELSE modes["default"]

\* generateValidAccessBits(mode)
generateValidAccessBits(mode) == OrDefault(Modes, mode)

\* the text of a bit kept as a boolean
BitTextOfBoolean(c) == IF c = 1 THEN "true" ELSE "false"

\* `${c}` of a bit
BitText(c) == HexLower[c + 1]

\* the lookup table[binaryString] and the row getPermissionsByBits builds from it
Lookup(binaryString, isTrailer) ==
    IF isTrailer /\ \E r \in SECTOR_TRAILER_ACCESS_CONDITIONS : r.key = binaryString
    THEN LET condition == CHOOSE r \in SECTOR_TRAILER_ACCESS_CONDITIONS : r.key = binaryString
         IN  [keyA |-> condition.keyA, accessBits |-> condition.accessBits,
              keyB |-> condition.keyB, binaryValue |-> binaryString]
    ELSE IF ~isTrailer /\ \E r \in DATA_BLOCK_ACCESS_CONDITIONS : r.key = binaryString
    THEN LET condition == CHOOSE r \in DATA_BLOCK_ACCESS_CONDITIONS : r.key = binaryString
         IN  [read |-> condition.read, write |-> condition.write,
              increment |-> condition.increment, decrement |-> condition.decrement,
              binaryValue |-> binaryString]
    ELSE IF isTrailer
    THEN [keyA |-> [read |-> "Error", write |-> "Error"],
          accessBits |-> [read |-> "Error", write |-> "Error"],
          keyB |-> [read |-> "Error", write |-> "Error"],
          binaryValue |-> binaryString]
    ELSE [read |-> "Error", write |-> "Error", increment |-> "Error",
          decrement |-> "Error", binaryValue |-> binaryString]

\* getPermissionsByBits(c1, c2, c3, isTrailer) inside parseAccessBitsByBlock
getPermissionsByBits(c1, c2, c3, isTrailer) ==
    Lookup(<<BitText(c1), BitText(c2), BitText(c3)>>, isTrailer)

\* the record extractBlockBits returns for the six bits it read
BlockBits(c1, c2, c3, notC1, notC2, notC3) ==
    [c1 |-> c1, c2 |-> c2, c3 |-> c3,
     value |-> c1 * 4 + c2 * 2 + c3,
     valid |-> (c1 = 1 - notC1) /\ (c2 = 1 - notC2) /\ (c3 = 1 - notC3),
     debug |-> [c1 |-> c1, notC1 |-> notC1, c1Valid |-> c1 = 1 - notC1,
                c2 |-> c2, notC2 |-> notC2, c2Valid |-> c2 = 1 - notC2,
                c3 |-> c3, notC3 |-> notC3, c3Valid |-> c3 = 1 - notC3]]

\* extractBlockBits(blockNum) inside parseAccessBitsByBlock
extractBlockBits(byte6, byte7, byte8, blockNum) ==
    BlockBits(LowBits(ShiftRight(byte7, 4 + blockNum), 1),
              LowBits(ShiftRight(byte8, blockNum), 1),
              LowBits(ShiftRight(byte8, 4 + blockNum), 1),
              LowBits(ShiftRight(byte6, blockNum), 1),
              LowBits(ShiftRight(byte6, 4 + blockNum), 1),
              LowBits(ShiftRight(byte7, blockNum), 1))

\* { bits, permissions } of one block of the result
BlockEntry(bits, isTrailer) ==
    [bits |-> bits, permissions |-> getPermissionsByBits(bits.c1, bits.c2, bits.c3, isTrailer)]

\* the object parseAccessBitsByBlock returns for the three bytes it decoded
Analysis(byte6, byte7, byte8) ==
    [rawBytes |-> [byte6 |-> byte6, byte7 |-> byte7, byte8 |-> byte8],
     block0 |-> BlockEntry(extractBlockBits(byte6, byte7, byte8, 0), FALSE),
     block1 |-> BlockEntry(extractBlockBits(byte6, byte7, byte8, 1), FALSE),
     block2 |-> BlockEntry(extractBlockBits(byte6, byte7, byte8, 2), FALSE),
     trailer |-> BlockEntry(extractBlockBits(byte6, byte7, byte8, 3), TRUE),
     isValidFormat |-> TRUE]

\* the decoding of the 6-character string hex
AnalysisOfHex(hex) ==
    Analysis(parseInt16(substr(hex, 0, 2)), parseInt16(substr(hex, 2, 2)),
             parseInt16(substr(hex, 4, 2)))

\* the fallback taken for a malformed text only: an inconsistent field of 6 hex
\* digits is decoded as it is
EffectiveAccessBitsUnlessWellFormedText(ab) ==
    IF Len(ab) # 6 \/ ~IsHex6(ab) THEN generateValidAccessBits("default") ELSE ab

\* the field parseAccessBitsByBlock goes on to decode: its argument when
\* validateAccessBits accepts it, the default field otherwise
EffectiveAccessBits(ab) ==
    IF ~validateAccessBits(ab).valid THEN generateValidAccessBits("default") ELSE ab

\* parseAccessBitsByBlock(accessBits)
parseAccessBitsByBlock(ab) == AnalysisOfHex(padStart(EffectiveAccessBits(ab), 6, "0"))

-----------------------------------------------------------------------------
(* The first copy of the decoder (lines 688-782 of the page) *)

\* byte.toString(2) of a number 0..255, "NaN" of NaN
RECURSIVE toString2(_)
toString2(n) ==
    IF n = NaN THEN <<"N", "a", "N">>
    ELSE IF n < 2 THEN <<HexLower[n + 1]>>
    ELSE toString2(n \div 2) \o <<HexLower[(n % 2) + 1]>>

\* the loop that appends the 8 binary digits of every two characters of hex from i on
RECURSIVE BinaryFrom(_, _)
BinaryFrom(hex, i) ==
    IF i >= Len(hex) THEN <<>>
    ELSE padStart(toString2(parseInt16(substr(hex, i, 2))), 8, "0") \o BinaryFrom(hex, i + 2)

\* parseInt(binary[index] || '0')
BinaryDigit(binary, index) ==
    IF index + 1 > Len(binary) THEN 0 ELSE parseInt10(<<binary[index + 1]>>)

\* c1 * 4 + c2 * 2 + c3 of JavaScript numbers
ValueOfBits(c1, c2, c3) ==
    IF c1 = NaN \/ c2 = NaN \/ c3 = NaN THEN NaN ELSE c1 * 4 + c2 * 2 + c3

\* the record the first copy's extractBlockBits returns for the three digits it read
EarlierBlockBits(c1, c2, c3) ==
    [c1 |-> c1, c2 |-> c2, c3 |-> c3, value |-> ValueOfBits(c1, c2, c3)]

\* extractBlockBits(blockNum) of the first copy: digits 4 + blockNum, 12 + blockNum
\* and 20 + blockNum of the binary string
EarlierExtractBlockBits(binary, blockNum) ==
    EarlierBlockBits(BinaryDigit(binary, 4 + blockNum), BinaryDigit(binary, 12 + blockNum),
                     BinaryDigit(binary, 20 + blockNum))

\* one case of the first copy's sector-trailer switch
EarlierTrailerCase(rA, wA, rAB, wAB, rB, wB) ==
    [readA |-> rA, writeA |-> wA, readAccessBits |-> rAB, writeAccessBits |-> wAB,
     readB |-> rB, writeB |-> wB]

\* the cases 0..7 of the first copy's sector-trailer switch (case value at index value + 1)
EarlierTrailerCases ==
    << EarlierTrailerCase("A", "Forbidden", "A", "B", "Forbidden", "B"),
       EarlierTrailerCase("A", "A", "A", "A", "A", "A"),
       EarlierTrailerCase("Forbidden", "Forbidden", "A", "B", "Forbidden", "B"),
       EarlierTrailerCase("A", "A", "A", "A", "Forbidden", "A"),
       EarlierTrailerCase("A", "A", "A", "A", "A", "A"),
       EarlierTrailerCase("Forbidden", "Forbidden", "A", "B", "Forbidden", "B"),
       EarlierTrailerCase("A", "A", "A", "A", "Forbidden", "A"),
       EarlierTrailerCase("Forbidden", "Forbidden", "A", "A", "Forbidden", "A") >>

\* one case of the first copy's data-block switch
EarlierDataCase(r, w, i, d) == [read |-> r, write |-> w, increment |-> i, decrement |-> d]

\* the cases 0..7 of the first copy's data-block switch ("Public" stands for the
\* text U+516C U+958B)
EarlierDataCases ==
    << EarlierDataCase("A/B", "A/B", "A/B", "A/B"),
       EarlierDataCase("B", "B", "B", "B"),
       EarlierDataCase("Public", "A/B", "A/B", "A/B"),
       EarlierDataCase("B", "A/B", "A/B", "A/B"),
       EarlierDataCase("A/B", "Forbidden", "Forbidden", "Forbidden"),
       EarlierDataCase("B", "Forbidden", "Forbidden", "Forbidden"),
       EarlierDataCase("B", "B", "B", "B"),
       EarlierDataCase("Forbidden", "Forbidden", "Forbidden", "Forbidden") >>

\* getPermissionsByBits(c1, c2, c3, isTrailer) of the first copy
EarlierGetPermissionsByBits(c1, c2, c3, isTrailer) ==
    IF ValueOfBits(c1, c2, c3) \in 0..7
    THEN IF isTrailer THEN EarlierTrailerCases[ValueOfBits(c1, c2, c3) + 1]
                      ELSE EarlierDataCases[ValueOfBits(c1, c2, c3) + 1]
    ELSE IF isTrailer
    THEN EarlierTrailerCase("Error", "Error", "Error", "Error", "Error", "Error")
    ELSE EarlierDataCase("Error", "Error", "Error", "Error")

\* { bits, permissions } of one block of the first copy's result
EarlierBlockEntry(bits, isTrailer) ==
    [bits |-> bits,
     permissions |-> EarlierGetPermissionsByBits(bits.c1, bits.c2, bits.c3, isTrailer)]

\* the object the first copy returns for the binary string it built
EarlierAnalysis(binary) ==
    [block0 |-> EarlierBlockEntry(EarlierExtractBlockBits(binary, 0), FALSE),
     block1 |-> EarlierBlockEntry(EarlierExtractBlockBits(binary, 1), FALSE),
     block2 |-> EarlierBlockEntry(EarlierExtractBlockBits(binary, 2), FALSE),
     trailer |-> EarlierBlockEntry(EarlierExtractBlockBits(binary, 3), TRUE),
     rawBinary |-> binary,
     isValidFormat |-> TRUE]

\* parseAccessBitsByBlock(accessBits) of the first copy
EarlierParseAccessBitsByBlock(ab) == EarlierAnalysis(BinaryFrom(padStart(ab, 6, "0"), 0))

-----------------------------------------------------------------------------
(* 32-bit arithmetic of the value-block codec on [hi, lo] numbers *)

Num(h, l) == [hi |-> h, lo |-> l]

\* the number of a small integer
NumOf(i) == Num(i \div 65536, i % 65536)

\* ToInt32: the signed reading of the low 32 bits
ToInt32(n) ==
    LET h == n.hi % 65536
    IN  Num(IF h >= 32768 THEN h - 65536 ELSE h, n.lo)

\* n >>> 0: the unsigned reading of the low 32 bits
ToUint32(n) == Num(n.hi % 65536, n.lo)

\* ~n: bitwise NOT of the 32-bit pattern, read signed (-n - 1)
BitNot32(n) == LET m == ToInt32(n) IN Num(0 - m.hi - 1, 65535 - m.lo)

\* a ^ b on 32-bit patterns, read signed
BitXor32(a, b) ==
    ToInt32(Num(BitXorN(a.hi % 65536, b.hi % 65536, 16), BitXorN(a.lo, b.lo, 16)))

\* a + b (exact, as on doubles of this size)
NumAdd(a, b) ==
    LET l == a.lo + b.lo
    IN  Num(a.hi + b.hi + (l \div 65536), l % 65536)

\* n >> k for k in 0..31: arithmetic shift of the signed 32-bit reading
NumShiftRight(n, k) ==
    LET m == ToInt32(n)
    IN  IF k < 16
        THEN Num(m.hi \div Pow2(k), ((m.hi % Pow2(k)) * Pow2(16 - k)) + (m.lo \div Pow2(k)))
        ELSE NumOf(m.hi \div Pow2(k - 16))

\* byte << k for a byte and k in {8, 16, 24}: the result wraps to a signed 32-bit number
NumShiftLeft(byte, k) ==
    ToInt32(IF k < 16 THEN Num(0, byte * Pow2(k)) ELSE Num(byte * Pow2(k - 16), 0))

\* n & 0xFF
NumAndFF(n) == n.lo % 256

-----------------------------------------------------------------------------
(* Value-block codec *)

\* the 16 bytes with the 32-bit fields most significant byte first
ValueBlockBytesBigEndian(value, address) ==
    LET val == ToUint32(value)
        valInverted == ToUint32(BitNot32(val))
        addr == LowBits(address, 8)
        addrInverted == LowBits(0 - addr - 1, 8)
        valueBytes == <<NumAndFF(NumShiftRight(val, 24)), NumAndFF(NumShiftRight(val, 16)),
                        NumAndFF(NumShiftRight(val, 8)), NumAndFF(val)>>
        valueInvertedBytes ==
            <<NumAndFF(NumShiftRight(valInverted, 24)), NumAndFF(NumShiftRight(valInverted, 16)),
              NumAndFF(NumShiftRight(valInverted, 8)), NumAndFF(valInverted)>>
    IN  valueBytes \o valueInvertedBytes \o valueBytes
            \o <<addr, addrInverted, addr, addrInverted>>

\* createValueBlock(value, address): the 16 bytes before they are printed
ValueBlockBytes(value, address) ==
    LET val == ToUint32(value)
        valInverted == ToUint32(BitNot32(val))
        addr == LowBits(address, 8)
        addrInverted == LowBits(0 - addr - 1, 8)
        valueBytes == <<NumAndFF(val), NumAndFF(NumShiftRight(val, 8)),
                        NumAndFF(NumShiftRight(val, 16)), NumAndFF(NumShiftRight(val, 24))>>
        valueInvertedBytes ==
            <<NumAndFF(valInverted), NumAndFF(NumShiftRight(valInverted, 8)),
              NumAndFF(NumShiftRight(valInverted, 16)), NumAndFF(NumShiftRight(valInverted, 24))>>
    IN  valueBytes \o valueInvertedBytes \o valueBytes
            \o <<addr, addrInverted, addr, addrInverted>>

\* blockData.map(byte => byte.toString(16).padStart(2, '0')).join('')
RECURSIVE JoinHex(_)
JoinHex(bytes) ==
    IF Len(bytes) = 0 THEN <<>>
    ELSE padStart(toString16(Head(bytes)), 2, "0") \o JoinHex(Tail(bytes))

\* createValueBlock(value, address)
createValueBlock(value, address) == toUpperCase(JoinHex(ValueBlockBytes(value, address)))

\* data.match(/.{2}/g)?.map(hex => parseInt(hex, 16)) || []
MatchBytes(data) ==
    [i \in 1..(Len(data) \div 2) |-> parseInt16(SubSeq(data, 2 * i - 1, 2 * i))]

\* (b0 + (b1 << 8) + (b2 << 16) + (b3 << 24)) >>> 0
ReadUint32LE(bytes, at) ==
    ToUint32(NumAdd(NumAdd(NumAdd(NumOf(bytes[at + 1]), NumShiftLeft(bytes[at + 2], 8)),
                           NumShiftLeft(bytes[at + 3], 16)),
                    NumShiftLeft(bytes[at + 4], 24)))

\* the complement test without the conversion to unsigned
IsComplementSigned(value, valueInverted) == BitXor32(value, valueInverted) = Num(65535, 65535)

\* ((value ^ valueInverted) >>> 0) === 0xFFFFFFFF
IsComplement(value, valueInverted) ==
    ToUint32(BitXor32(value, valueInverted)) = Num(65535, 65535)

\* the decoder with isValid computed without the address backup check
parseValueBlockWithoutAddressBackup(data) ==
    IF Len(data) # 32 THEN [null |-> TRUE]
    ELSE
        LET bytes == MatchBytes(data)
        IN  IF Len(bytes) # 16 THEN [null |-> TRUE]
            ELSE
                LET value == ReadUint32LE(bytes, 0)
                    valueInverted == ReadUint32LE(bytes, 4)
                    valueBackup == ReadUint32LE(bytes, 8)
                    addr == bytes[13]
                    addrInverted == bytes[14]
                    addrBackup == bytes[15]
                    addrInvertedBackup == bytes[16]
                    valueValid == IsComplement(value, valueInverted)
                    valueBackupValid == value = valueBackup
                    addrValid == BitXorN(addr, addrInverted, 32) = 255
                    addrBackupValid == addr = addrBackup /\ addrInverted = addrInvertedBackup
                IN  [null |-> FALSE,
                     value |-> value,
                     valueInverted |-> valueInverted,
                     valueBackup |-> valueBackup,
                     addr |-> addr,
                     addrInverted |-> addrInverted,
                     addrBackup |-> addrBackup,
                     addrInvertedBackup |-> addrInvertedBackup,
                     isValid |-> valueValid /\ valueBackupValid /\ addrValid,
                     validationErrors |-> [valueInverted |-> ~valueValid,
                                           valueBackup |-> ~valueBackupValid,
                                           addrInverted |-> ~addrValid,
                                           addrBackup |-> ~addrBackupValid]]

\* parseValueBlock(data); [null |-> TRUE] is the null result
parseValueBlock(data) ==
    IF Len(data) # 32 THEN [null |-> TRUE]
    ELSE
        LET bytes == MatchBytes(data)
        IN  IF Len(bytes) # 16 THEN [null |-> TRUE]
            ELSE
                LET value == ReadUint32LE(bytes, 0)
                    valueInverted == ReadUint32LE(bytes, 4)
                    valueBackup == ReadUint32LE(bytes, 8)
                    addr == bytes[13]
                    addrInverted == bytes[14]
                    addrBackup == bytes[15]
                    addrInvertedBackup == bytes[16]
                    valueValid == IsComplement(value, valueInverted)
                    valueBackupValid == value = valueBackup
                    addrValid == BitXorN(addr, addrInverted, 32) = 255
                    addrBackupValid == addr = addrBackup /\ addrInverted = addrInvertedBackup
                IN  [null |-> FALSE,
                     value |-> value,
                     valueInverted |-> valueInverted,
                     valueBackup |-> valueBackup,
                     addr |-> addr,
                     addrInverted |-> addrInverted,
                     addrBackup |-> addrBackup,
                     addrInvertedBackup |-> addrInvertedBackup,
                     isValid |-> valueValid /\ valueBackupValid /\ addrValid /\ addrBackupValid,
                     validationErrors |-> [valueInverted |-> ~valueValid,
                                           valueBackup |-> ~valueBackupValid,
                                           addrInverted |-> ~addrValid,
                                           addrBackup |-> ~addrBackupValid]]

-----------------------------------------------------------------------------
(* Memory layout of the card shown by the page *)

\* The entries of memoryData as the source writes them, the calls they hold
\* (generateAccessBitsByBlocks, createValueBlock) not yet made: codes are the four
\* arguments of generateAccessBitsByBlocks, create the two of createValueBlock.

\* a manufacturer block entry
ManufacturerEntry(b, s, a, d, ka, c0, c1, c2, c3, kb) ==
    [block |-> b, sector |-> s, address |-> a, data |-> d, type |-> "manufacturer",
     keyA |-> ka, keyB |-> kb, codes |-> <<c0, c1, c2, c3>>]

\* a data block entry
DataEntry(b, s, a, d) ==
    [block |-> b, sector |-> s, address |-> a, data |-> d, type |-> "data"]

\* a value block entry: const valueData = createValueBlock(v, at)
ValueBlockEntry(b, s, a, v, at) ==
    [block |-> b, sector |-> s, address |-> a, type |-> "value", create |-> <<v, at>>]

\* a sector trailer entry: data is `${keyA}${generateAccessBitsByBlocks(...)}${keyB}`
TrailerEntry(b, s, a, ka, c0, c1, c2, c3, kb) ==
    [block |-> b, sector |-> s, address |-> a, type |-> "trailer",
     keyA |-> ka, keyB |-> kb, codes |-> <<c0, c1, c2, c3>>]

\* the value block entry once its block is written and decoded
\* (valueInfo: parseValueBlock(valueData) || undefined)
WithValueData(e, written) ==
    [block |-> e.block, sector |-> e.sector, address |-> e.address,
     data |-> written, type |-> "value", valueInfo |-> parseValueBlock(written)]

\* the entry with the access bits its codes encode
WithAccessBits(e, bits) ==
    IF e.type = "trailer"
    THEN [block |-> e.block, sector |-> e.sector, address |-> e.address,
          data |-> e.keyA \o bits \o e.keyB, type |-> "trailer",
          keyA |-> e.keyA, keyB |-> e.keyB, accessBits |-> bits]
    ELSE [block |-> e.block, sector |-> e.sector, address |-> e.address,
          data |-> e.data, type |-> e.type,
          keyA |-> e.keyA, keyB |-> e.keyB, accessBits |-> bits]

\* the MemoryBlock an entry evaluates to
Evaluated(e) ==
    IF e.type = "data" THEN e
    ELSE IF e.type = "value"
    THEN WithValueData(e, createValueBlock(NumOf(e.create[1]), e.create[2]))
    ELSE WithAccessBits(e, generateAccessBitsByBlocks(e.codes[1], e.codes[2],
                                                      e.codes[3], e.codes[4]).value)

\* the entries of blocks 0..15
Sectors0To3 ==
    << ManufacturerEntry(0, 0, 0,
        <<"d", "e", "a", "d", "b", "e", "e", "f", "2", "2", "0", "8", "0", "4", "0", "0">>
            \o <<"6", "2", "6", "3", "6", "4", "6", "5", "6", "6", "6", "7", "6", "8", "6", "9">>,
        <<"F", "F", "F", "F", "F", "F", "F", "F", "F", "F", "F", "F">>,
        4, 4, 4, 0,
        <<"F", "F", "F", "F", "F", "F", "F", "F", "F", "F", "F", "F">>),
       DataEntry(1, 0, 1,
        <<"0", "0", "0", "0", "0", "0", "0", "0", "0", "0", "0", "0", "0", "0", "0", "0">>
            \o <<"0", "0", "0", "0", "0", "0", "0", "0", "0", "0", "0", "0", "0", "0", "0", "0">>),
       DataEntry(2, 0, 2,
        <<"0", "0", "0", "0", "0", "0", "0", "0", "0", "0", "0", "0", "0", "0", "0", "0">>
            \o <<"0", "0", "0", "0", "0", "0", "0", "0", "0", "0", "0", "0", "0", "0", "0", "0">>),
       TrailerEntry(3, 0, 3,
        <<"F", "F", "F", "F", "F", "F", "F", "F", "F", "F", "F", "F">>,
        4, 4, 4, 0,
        <<"F", "F", "F", "F", "F", "F", "F", "F", "F", "F", "F", "F">>),
       DataEntry(4, 1, 4,
        <<"1", "2", "3", "4", "5", "6", "7", "8", "9", "0", "1", "2", "3", "4", "5", "6">>
            \o <<"7", "8", "9", "0", "1", "2", "3", "4", "5", "6", "7", "8", "9", "0", "1", "2">>),
       ValueBlockEntry(5, 1, 5, 100, 5),
       DataEntry(6, 1, 6,
        <<"A", "B", "C", "D", "E", "F", "A", "B", "C", "D", "E", "F", "A", "B", "C", "D">>
            \o <<"E", "F", "A", "B", "C", "D", "E", "F", "A", "B", "C", "D", "E", "F", "A", "B">>),
       TrailerEntry(7, 1, 7,
        <<"A", "0", "A", "1", "A", "2", "A", "3", "A", "4", "A", "5">>,
        0, 1, 2, 3,
        <<"B", "0", "B", "1", "B", "2", "B", "3", "B", "4", "B", "5">>),
       DataEntry(8, 2, 8,
        <<"5", "2", "4", "5", "4", "1", "4", "4", "4", "F", "4", "E", "4", "C", "5", "9">>
            \o <<"4", "4", "4", "1", "5", "4", "4", "1", "4", "4", "4", "2", "4", "3", "4", "B">>),
       DataEntry(9, 2, 9,
        <<"4", "3", "4", "F", "4", "E", "4", "6", "4", "9", "4", "4", "4", "D", "5", "F">>
            \o <<"4", "3", "4", "F", "4", "E", "4", "6", "4", "9", "4", "7", "5", "5", "5", "F">>),
       DataEntry(10, 2, 10,
        <<"5", "0", "5", "2", "4", "F", "5", "4", "4", "5", "4", "3", "5", "4", "4", "5">>
            \o <<"4", "4", "5", "2", "4", "5", "4", "1", "4", "4", "4", "4", "4", "1", "5", "4">>),
       TrailerEntry(11, 2, 11,
        <<"C", "1", "C", "2", "C", "3", "C", "4", "C", "5", "C", "6">>,
        4, 5, 6, 7,
        <<"C", "6", "C", "7", "C", "8", "C", "9", "C", "A", "C", "B">>),
       ValueBlockEntry(12, 3, 12, 250, 12),
       ValueBlockEntry(13, 3, 13, 500, 13),
       ValueBlockEntry(14, 3, 14, 750, 14),
       TrailerEntry(15, 3, 15,
        <<"D", "1", "D", "2", "D", "3", "D", "4", "D", "5", "D", "6">>,
        0, 1, 2, 1,
        <<"D", "6", "D", "7", "D", "8", "D", "9", "D", "A", "D", "B">>) >>

\* the entries of blocks 16..31
Sectors4To7 ==
    << DataEntry(16, 4, 16,
        <<"4", "9", "4", "D", "5", "0", "4", "F", "5", "2", "5", "4", "4", "1", "4", "E">>
            \o <<"5", "4", "4", "4", "4", "1", "5", "4", "4", "1", "4", "2", "4", "C", "4", "F">>),
       DataEntry(17, 4, 17,
        <<"4", "3", "4", "B", "4", "9", "4", "E", "4", "6", "4", "F", "5", "2", "4", "D">>
            \o <<"4", "1", "5", "4", "4", "9", "4", "F", "4", "E", "4", "4", "4", "1", "5", "4">>),
       DataEntry(18, 4, 18,
        <<"5", "6", "4", "1", "4", "C", "5", "5", "4", "5", "4", "2", "4", "C", "4", "F">>
            \o <<"4", "3", "4", "B", "4", "3", "4", "F", "4", "E", "4", "6", "4", "9", "4", "7">>),
       TrailerEntry(19, 4, 19,
        <<"E", "1", "E", "2", "E", "3", "E", "4", "E", "5", "E", "6">>,
        2, 6, 4, 2,
        <<"E", "6", "E", "7", "E", "8", "E", "9", "E", "A", "E", "B">>),
       DataEntry(20, 5, 20,
        <<"4", "1", "5", "0", "5", "0", "4", "C", "4", "9", "4", "3", "4", "1", "5", "4">>
            \o <<"4", "9", "4", "F", "4", "E", "4", "4", "4", "1", "5", "4", "4", "1">>),
       DataEntry(21, 5, 21,
        <<"4", "3", "4", "F", "4", "E", "4", "6", "4", "9", "4", "7", "5", "5", "5", "2">>
            \o <<"4", "1", "5", "4", "4", "9", "2", "0", "4", "F", "4", "E", "4", "4", "4", "1">>),
       ValueBlockEntry(22, 5, 22, 1000, 22),
       TrailerEntry(23, 5, 23,
        <<"F", "1", "F", "2", "F", "3", "F", "4", "F", "5", "F", "6">>,
        0, 0, 0, 0,
        <<"F", "6", "F", "7", "F", "8", "F", "9", "F", "A", "F", "B">>),
       DataEntry(24, 6, 24,
        <<"5", "3", "4", "5", "4", "3", "5", "5", "5", "2", "4", "9", "4", "4", "5", "9">>
            \o <<"4", "9", "4", "D", "5", "0", "4", "F", "5", "2", "5", "4", "4", "1", "4", "E">>),
       DataEntry(25, 6, 25,
        <<"4", "3", "4", "F", "4", "E", "4", "6", "4", "9", "4", "4", "4", "5", "4", "E">>
            \o <<"5", "4", "4", "9", "4", "1", "4", "C", "4", "4", "4", "1", "5", "4">>),
       DataEntry(26, 6, 26,
        <<"5", "0", "5", "2", "4", "9", "5", "6", "4", "1", "5", "4", "4", "5", "4", "9">>
            \o <<"4", "E", "4", "6", "4", "F", "5", "2", "4", "D", "4", "1", "5", "4", "4", "9">>),
       TrailerEntry(27, 6, 27,
        <<"0", "1", "0", "2", "0", "3", "0", "4", "0", "5", "0", "6">>,
        6, 6, 6, 6,
        <<"0", "6", "0", "7", "0", "8", "0", "9", "0", "A", "0", "B">>),
       DataEntry(28, 7, 28,
        <<"4", "C", "4", "F", "4", "3", "4", "B", "4", "5", "4", "4", "4", "4", "4", "1">>
            \o <<"5", "4", "4", "1", "4", "2", "4", "C", "4", "F", "4", "3", "4", "B">>),
       DataEntry(29, 7, 29,
        <<"5", "0", "4", "5", "5", "2", "4", "1", "4", "E", "4", "5", "4", "E", "5", "4">>
            \o <<"4", "C", "5", "9", "4", "C", "4", "F", "4", "3", "4", "B", "4", "5", "4", "4">>),
       DataEntry(30, 7, 30,
        <<"4", "E", "4", "F", "4", "1", "4", "3", "4", "3", "4", "5", "5", "3", "5", "3">>
            \o <<"4", "9", "4", "8", "4", "9", "4", "6", "4", "9", "5", "8", "4", "5">>),
       TrailerEntry(31, 7, 31,
        <<"1", "1", "1", "2", "1", "3", "1", "4", "1", "5", "1", "6">>,
        7, 7, 7, 7,
        <<"1", "6", "1", "7", "1", "8", "1", "9", "1", "A", "1", "B">>) >>

\* the entries of blocks 32..47
Sectors8To11 ==
    << ValueBlockEntry(32, 8, 32, 750, 32),
       ValueBlockEntry(33, 8, 33, 1250, 33),
       DataEntry(34, 8, 34,
        <<"5", "6", "4", "1", "4", "C", "5", "5", "4", "5", "4", "2", "4", "C", "4", "F">>
            \o <<"4", "3", "4", "B", "4", "D", "4", "9", "5", "8", "4", "8", "4", "5", "4", "D">>),
       TrailerEntry(35, 8, 35,
        <<"2", "1", "2", "2", "2", "3", "2", "4", "2", "5", "2", "6">>,
        2, 1, 4, 2,
        <<"2", "6", "2", "7", "2", "8", "2", "9", "2", "A", "2", "B">>),
       DataEntry(36, 9, 36,
        <<"5", "0", "5", "5", "4", "C", "4", "2", "4", "9", "4", "3", "4", "9", "4", "E">>
            \o <<"4", "6", "4", "F", "5", "2", "4", "D", "4", "1", "5", "4", "4", "9", "4", "F">>),
       DataEntry(37, 9, 37,
        <<"4", "C", "4", "9", "4", "D", "4", "9", "5", "4", "4", "5", "4", "4", "4", "1">>
            \o <<"4", "3", "4", "3", "4", "5", "5", "3", "5", "3", "4", "4", "4", "1", "5", "4", "4">>),
       DataEntry(38, 9, 38,
        <<"5", "0", "5", "2", "4", "9", "5", "6", "4", "1", "5", "4", "4", "5", "4", "9">>
            \o <<"4", "E", "4", "6", "4", "F", "5", "2", "4", "D", "4", "1", "5", "4", "4", "9">>),
       TrailerEntry(39, 9, 39,
        <<"3", "1", "3", "2", "3", "3", "3", "4", "3", "5", "3", "6">>,
        0, 1, 6, 3,
        <<"3", "6", "3", "7", "3", "8", "3", "9", "3", "A", "3", "B">>),
       DataEntry(40, 10, 40,
        <<"5", "0", "5", "5", "4", "2", "4", "C", "4", "9", "4", "3", "5", "3", "4", "8">>
            \o <<"4", "1", "5", "2", "4", "5", "4", "4", "4", "4", "4", "1", "5", "4", "4", "1">>),
       DataEntry(41, 10, 41,
        <<"4", "6", "5", "2", "4", "5", "4", "5", "4", "1", "4", "3", "4", "3", "4", "5">>
            \o <<"5", "3", "5", "3", "4", "9", "4", "E", "4", "6", "4", "F", "5", "2", "4", "D">>),
       DataEntry(42, 10, 42,
        <<"4", "F", "5", "0", "4", "5", "4", "E", "5", "3", "4", "F", "5", "5", "5", "2">>
            \o <<"4", "3", "4", "5", "4", "9", "4", "6", "4", "F", "5", "2", "4", "D">>),
       TrailerEntry(43, 10, 43,
        <<"4", "1", "4", "2", "4", "3", "4", "4", "4", "5", "4", "6">>,
        0, 0, 0, 0,
        <<"4", "6", "4", "7", "4", "8", "4", "9", "4", "A", "4", "B">>),
       DataEntry(44, 11, 44,
        <<"4", "5", "4", "4", "4", "9", "5", "4", "4", "1", "4", "2", "4", "5", "4", "C">>
            \o <<"5", "2", "4", "5", "4", "1", "4", "4", "4", "F", "4", "E", "4", "C", "5", "9">>),
       DataEntry(45, 11, 45,
        <<"5", "2", "4", "5", "4", "1", "4", "4", "4", "F", "4", "E", "4", "C", "5", "9">>
            \o <<"4", "1", "4", "6", "5", "4", "4", "5", "5", "2", "5", "7", "5", "2", "4", "9", "5", "4">>),
       DataEntry(46, 11, 46,
        <<"5", "0", "5", "2", "4", "F", "5", "4", "4", "5", "4", "3", "5", "4", "4", "5">>
            \o <<"4", "4", "5", "2", "4", "5", "4", "1", "4", "4", "4", "4", "4", "1", "5", "4">>),
       TrailerEntry(47, 11, 47,
        <<"5", "1", "5", "2", "5", "3", "5", "4", "5", "5", "5", "6">>,
        2, 4, 5, 4,
        <<"5", "6", "5", "7", "5", "8", "5", "9", "5", "A", "5", "B">>) >>

\* the entries of blocks 48..63
Sectors12To15 ==
    << DataEntry(48, 12, 48,
        <<"0", "0", "0", "0", "0", "0", "0", "0", "0", "0", "0", "0", "0", "0", "0", "0">>
            \o <<"0", "0", "0", "0", "0", "0", "0", "0", "0", "0", "0", "0", "0", "0", "0", "0">>),
       DataEntry(49, 12, 49,
        <<"0", "0", "0", "0", "0", "0", "0", "0", "0", "0", "0", "0", "0", "0", "0", "0">>
            \o <<"0", "0", "0", "0", "0", "0", "0", "0", "0", "0", "0", "0", "0", "0", "0", "0">>),
       DataEntry(50, 12, 50,
        <<"0", "0", "0", "0", "0", "0", "0", "0", "0", "0", "0", "0", "0", "0", "0", "0">>
            \o <<"0", "0", "0", "0", "0", "0", "0", "0", "0", "0", "0", "0", "0", "0", "0", "0">>),
       TrailerEntry(51, 12, 51,
        <<"F", "F", "F", "F", "F", "F", "F", "F", "F", "F", "F", "F">>,
        0, 0, 0, 0,
        <<"F", "F", "F", "F", "F", "F", "F", "F", "F", "F", "F", "F">>),
       DataEntry(52, 13, 52,
        <<"4", "C", "4", "F", "4", "3", "4", "B", "4", "5", "4", "4", "4", "4", "4", "1">>
            \o <<"5", "4", "4", "1", "4", "2", "4", "3", "4", "B", "3", "1", "3", "2", "3", "3">>),
       DataEntry(53, 13, 53,
        <<"4", "E", "4", "F", "4", "1", "4", "3", "4", "3", "4", "5", "5", "3", "5", "3">>
            \o <<"4", "9", "4", "2", "4", "C", "4", "5", "4", "4", "4", "1", "5", "4", "4", "1", "4", "2">>),
       DataEntry(54, 13, 54,
        <<"5", "0", "4", "5", "5", "2", "5", "4", "4", "1", "4", "E", "4", "5", "4", "E">>
            \o <<"5", "4", "4", "C", "5", "9", "4", "C", "4", "F", "4", "3", "4", "B", "4", "5", "4", "4">>),
       TrailerEntry(55, 13, 55,
        <<"7", "1", "7", "2", "7", "3", "7", "4", "7", "5", "7", "6">>,
        7, 7, 7, 7,
        <<"7", "6", "7", "7", "7", "8", "7", "9", "7", "A", "7", "B">>),
       DataEntry(56, 14, 56,
        <<"0", "0", "0", "0", "0", "0", "0", "0", "0", "0", "0", "0", "0", "0", "0", "0">>
            \o <<"0", "0", "0", "0", "0", "0", "0", "0", "0", "0", "0", "0", "0", "0", "0", "0">>),
       DataEntry(57, 14, 57,
        <<"0", "0", "0", "0", "0", "0", "0", "0", "0", "0", "0", "0", "0", "0", "0", "0">>
            \o <<"0", "0", "0", "0", "0", "0", "0", "0", "0", "0", "0", "0", "0", "0", "0", "0">>),
       DataEntry(58, 14, 58,
        <<"0", "0", "0", "0", "0", "0", "0", "0", "0", "0", "0", "0", "0", "0", "0", "0">>
            \o <<"0", "0", "0", "0", "0", "0", "0", "0", "0", "0", "0", "0", "0", "0", "0", "0">>),
       TrailerEntry(59, 14, 59,
        <<"F", "F", "F", "F", "F", "F", "F", "F", "F", "F", "F", "F">>,
        1, 2, 3, 1,
        <<"F", "F", "F", "F", "F", "F", "F", "F", "F", "F", "F", "F">>),
       DataEntry(60, 15, 60,
        <<"0", "0", "0", "0", "0", "0", "0", "0", "0", "0", "0", "0", "0", "0", "0", "0">>
            \o <<"0", "0", "0", "0", "0", "0", "0", "0", "0", "0", "0", "0", "0", "0", "0", "0">>),
       DataEntry(61, 15, 61,
        <<"0", "0", "0", "0", "0", "0", "0", "0", "0", "0", "0", "0", "0", "0", "0", "0">>
            \o <<"0", "0", "0", "0", "0", "0", "0", "0", "0", "0", "0", "0", "0", "0", "0", "0">>),
       DataEntry(62, 15, 62,
        <<"0", "0", "0", "0", "0", "0", "0", "0", "0", "0", "0", "0", "0", "0", "0", "0">>
            \o <<"0", "0", "0", "0", "0", "0", "0", "0", "0", "0", "0", "0", "0", "0", "0", "0">>),
       TrailerEntry(63, 15, 63,
        <<"F", "F", "F", "F", "F", "F", "F", "F", "F", "F", "F", "F">>,
        0, 0, 0, 0,
        <<"F", "F", "F", "F", "F", "F", "F", "F", "F", "F", "F", "F">>) >>

\* the 64 entries as written
WrittenEntries == Sectors0To3 \o Sectors4To7 \o Sectors8To11 \o Sectors12To15

\* memoryData (entry i + 1 of the tuple is memoryData[i])
memoryData == [i \in 1..Len(WrittenEntries) |-> Evaluated(WrittenEntries[i])]

-----------------------------------------------------------------------------
(* Bounds of the checked inputs *)

\* block codes are drawn from -1..MaxInput
MaxInput == 8
\* number of stride-sampled byte values of a raw access-bits field
NumByteSamples == 8
\* longest C1C2C3 argument string
MaxStrLen == 4
\* number of stride-sampled 32-bit values, besides the edge values
NumValues == 3
\* number of stride-sampled addresses, besides 0 and 255
NumAddresses == 2

\* a block string handed to parseValueBlock is up to MaxExtra characters short or long
MaxExtra == 2

\* longest access-bits text handed to the validation and the decoder
MaxTextLen == 7

BlockInputs == (0 - 1)..MaxInput

\* bytes of well-known trailers (FF0780, 787788, 7F0788, FF0F00, 078069) and a stride sample
ByteSamples ==
    {0, 7, 15, 105, 119, 120, 127, 128, 136, 255}
        \cup {(k * 37) % 256 : k \in 1..NumByteSamples}

\* access-bits texts of a trailer record: any length up to MaxTextLen, lower-case
\* hex digits and a character that is no hex digit
AccessTexts == UNION {[1..n -> {"0", "f", "g"}] : n \in 0..MaxTextLen}

\* the mode names of generateValidAccessBits and a name it does not know
ModeInputs ==
    {"default", "editable", "readonly", "keyb_write", "keyb_control", "locked_keyb",
     "fully_locked", "permanent_lock", "unknown"}

C1C2C3Inputs == UNION {[1..n -> {"0", "1", "8", "-"}] : n \in 0..MaxStrLen}

\* -2^31, -1, 0, 1, 2^31 - 1 and a stride sample of both signs
ValueInputs ==
    {Num(0 - 32768, 0), Num(0 - 1, 65535), Num(0, 0), Num(0, 1), Num(32767, 65535)}
        \cup {Num(((k * 29989) % 65536) - 32768, (k * 21845 + 100) % 65536) : k \in 1..NumValues}

AddressInputs == {0, 255} \cup {(k * 37 + 5) % 256 : k \in 1..NumAddresses}

\* 32-bit fields of a stored block, least significant byte first: 0, its
\* complement, 100 and the complement of 100
WordInputs == {<<0, 0, 0, 0>>, <<255, 255, 255, 255>>, <<100, 0, 0, 0>>, <<155, 255, 255, 255>>}

\* address bytes of a stored block: two addresses and their complements
AddressBytes == {0, 255, 5, 250}

\* the lengths of the block strings handed over: the empty string and 32 +- MaxExtra
BlockLengths == {0} \cup ((32 - MaxExtra)..(32 + MaxExtra))

\* the string a card dump holds for a block of three words and four address bytes
BlockOf(words, addrs) == toUpperCase(JoinHex(words[1] \o words[2] \o words[3] \o addrs))

\* the string s cut to n characters, or filled up to n characters with "0"
RECURSIVE Resize(_, _)
Resize(s, n) == IF n <= Len(s) THEN SubSeq(s, 1, n) ELSE Resize(s \o <<"0">>, n)

\* the string a card dump holds for three bytes
FieldOf(bytes) == ByteToHex(bytes[1]) \o ByteToHex(bytes[2]) \o ByteToHex(bytes[3])

\* the block string with bit (pos % 8) of byte (pos \div 8) flipped
FlipBitOf(data, pos) ==
    LET i == pos \div 8
        old == parseInt16(SubSeq(data, 2 * i + 1, 2 * i + 2))
        new == BitXorN(old, Pow2(pos % 8), 8)
    IN  SubSeq(data, 1, 2 * i) \o ByteToHex(new) \o SubSeq(data, 2 * i + 3, Len(data))

-----------------------------------------------------------------------------
(* Callers of the access-bits codec *)

InitAccess ==
    /\ \/ /\ pc = "call"
          /\ input \in [fn : {"generateAccessBitsByBlocks"},
                        blocks : BlockInputs \X BlockInputs \X BlockInputs \X BlockInputs]
          /\ accessBits = <<>>
       \/ /\ pc = "call"
          /\ input \in [fn : {"generateOfficialAccessBits"}, c1c2c3 : C1C2C3Inputs]
          /\ accessBits = <<>>
       \/ /\ pc = "call"
          /\ input \in [fn : {"generateValidAccessBits"}, mode : ModeInputs]
          /\ accessBits = <<>>
       \/ /\ pc = "field"
          /\ input \in [fn : {"field"}, bytes : ByteSamples \X ByteSamples \X ByteSamples]
          /\ accessBits = FieldOf(input.bytes)
       \/ /\ pc = "field"
          /\ input \in [fn : {"text"}, text : AccessTexts]
          /\ accessBits = input.text
    /\ error = NoError
    /\ bitAnalysis = NoAnalysis
    /\ valueData = <<>>
    /\ valueInfo = NoInfo
    /\ flipped = 0 - 1
    /\ validation = NoValidation
    /\ alternative = <<>>
    /\ selectedBlock = 0
    /\ selectedSector = 0
    /\ earlierAnalysis = NoAnalysis
    /\ replaced = NoReplacement
    /\ alternativeAnalysis = NoAnalysis
    /\ Mounted

Finish(r) ==
    IF r.thrown
    THEN pc' = "threw" /\ error' = r /\ UNCHANGED accessBits
    ELSE pc' = "returned" /\ accessBits' = r.value /\ UNCHANGED error

CallGenerateAccessBitsByBlocks ==
    /\ pc = "call"
    /\ input.fn = "generateAccessBitsByBlocks"
    /\ Finish(generateAccessBitsByBlocks(input.blocks[1], input.blocks[2],
                                         input.blocks[3], input.blocks[4]))
    /\ UNCHANGED <<input, bitAnalysis, valueData, valueInfo, flipped, validation, alternative,
                   selectedBlock, selectedSector,
                   earlierAnalysis, replaced, alternativeAnalysis, authVars>>

CallGenerateOfficialAccessBits ==
    /\ pc = "call"
    /\ input.fn = "generateOfficialAccessBits"
    /\ Finish(generateOfficialAccessBits(input.c1c2c3))
    /\ UNCHANGED <<input, bitAnalysis, valueData, valueInfo, flipped, validation, alternative,
                   selectedBlock, selectedSector,
                   earlierAnalysis, replaced, alternativeAnalysis, authVars>>

CallGenerateValidAccessBits ==
    /\ pc = "call"
    /\ input.fn = "generateValidAccessBits"
    /\ accessBits' = generateValidAccessBits(input.mode)
    /\ pc' = "returned"
    /\ UNCHANGED <<input, error, bitAnalysis, valueData, valueInfo, flipped, validation,
                   alternative, selectedBlock, selectedSector,
                   earlierAnalysis, replaced, alternativeAnalysis, authVars>>

\* the 3-bit binary string of a code 0..7
BinaryString(code) == <<BitText((code \div 4) % 2), BitText((code \div 2) % 2), BitText(code % 2)>>

\* the (c1, c2, c3) bits of a code 0..7: c1 = bit 2, c2 = bit 1, c3 = bit 0
BitsOfCode(code) == [c1 |-> (code \div 4) % 2, c2 |-> (code \div 2) % 2, c3 |-> code % 2]

\* after generateAccessBitsByBlocks(c, c, c, c) returned, the same code goes to
\* generateOfficialAccessBits as a binary string
CallGenerateOfficialForSameCode ==
    /\ pc = "returned"
    /\ input.fn = "generateAccessBitsByBlocks"
    /\ \A i \in 2..4 : input.blocks[i] = input.blocks[1]
    /\ alternative' = generateOfficialAccessBits(BinaryString(input.blocks[1])).value
    /\ pc' = "uniform"
    /\ UNCHANGED <<input, accessBits, error, bitAnalysis, valueData, valueInfo, flipped,
                   validation, selectedBlock, selectedSector,
                   earlierAnalysis, replaced, alternativeAnalysis, authVars>>

\* after generateAccessBitsByBlocks returned, the bits of the same four codes go
\* to createAccessBitsFromPermissions
CallCreateAccessBitsFromPermissions ==
    /\ pc = "returned"
    /\ input.fn = "generateAccessBitsByBlocks"
    /\ alternative' = createAccessBitsFromPermissions(
                          BitsOfCode(input.blocks[1]), BitsOfCode(input.blocks[2]),
                          BitsOfCode(input.blocks[3]), BitsOfCode(input.blocks[4]))
    /\ pc' = "permissions"
    /\ UNCHANGED <<input, accessBits, error, bitAnalysis, valueData, valueInfo, flipped,
                   validation, selectedBlock, selectedSector,
                   earlierAnalysis, replaced, alternativeAnalysis, authVars>>

\* the sector panel decodes the access bits of the selected trailer as they are
CallParseAccessBitsByBlock ==
    /\ pc \in {"returned", "field"}
    /\ bitAnalysis' = parseAccessBitsByBlock(accessBits)
    /\ pc' = "parsed"
    /\ UNCHANGED <<input, accessBits, error, valueData, valueInfo, flipped, validation,
                   alternative, selectedBlock, selectedSector,
                   earlierAnalysis, replaced, alternativeAnalysis, authVars>>

\* the first copy of the sector panel decodes the same access bits with its own
\* parseAccessBitsByBlock
CallEarlierParseAccessBitsByBlock ==
    /\ pc = "parsed"
    /\ earlierAnalysis = NoAnalysis
    /\ earlierAnalysis' = EarlierParseAccessBitsByBlock(accessBits)
    /\ UNCHANGED <<pc, input, accessBits, error, bitAnalysis, valueData, valueInfo, flipped,
                   validation, alternative, selectedBlock, selectedSector,
                   replaced, alternativeAnalysis, authVars>>

\* the block panel validates the access bits of the trailer first ...
CallValidateAccessBits ==
    /\ pc = "field"
    /\ validation' = validateAccessBits(accessBits)
    /\ pc' = "validated"
    /\ UNCHANGED <<input, accessBits, error, bitAnalysis, valueData, valueInfo, flipped,
                   alternative, selectedBlock, selectedSector,
                   earlierAnalysis, replaced, alternativeAnalysis, authVars>>

\* ... and decodes them when they passed, the default field otherwise
CallParseEffectiveAccessBits ==
    /\ pc = "validated"
    /\ LET effectiveAccessBits ==
               IF validation.valid THEN accessBits ELSE generateValidAccessBits("default")
       IN  bitAnalysis' = parseAccessBitsByBlock(effectiveAccessBits)
    /\ pc' = "parsed"
    /\ UNCHANGED <<input, accessBits, error, valueData, valueInfo, flipped, validation,
                   alternative, selectedBlock, selectedSector,
                   earlierAnalysis, replaced, alternativeAnalysis, authVars>>

NextAccess ==
    \/ CallGenerateAccessBitsByBlocks
    \/ CallGenerateOfficialAccessBits
    \/ CallGenerateValidAccessBits
    \/ CallGenerateOfficialForSameCode
    \/ CallCreateAccessBitsFromPermissions
    \/ CallParseAccessBitsByBlock
    \/ CallEarlierParseAccessBitsByBlock
    \/ CallValidateAccessBits
    \/ CallParseEffectiveAccessBits

SpecAccess == InitAccess /\ [][NextAccess]_vars

-----------------------------------------------------------------------------
(* Callers that encode a tuple again with the code of one slot replaced, and *)
(* callers that validate a stored field after one of its bits was flipped    *)

\* the codes of the tuples encoded first: 0, 5, 2, 7, 4, ...
NumBaseCodes == 5

BaseCodes == {(k * 5) % 8 : k \in 0..(NumBaseCodes - 1)}

InitBaseTuples ==
    /\ InitAccess
    /\ input.fn = "generateAccessBitsByBlocks"
    /\ \A i \in 1..4 : input.blocks[i] \in BaseCodes

\* the tuple blocks with the code of slot k (0..3) replaced by code
WithSlot(blocks, k, code) == [blocks EXCEPT ![k + 1] = code]

\* generateAccessBitsByBlocks applied to a tuple
GenerateForTuple(blocks) ==
    generateAccessBitsByBlocks(blocks[1], blocks[2], blocks[3], blocks[4])

\* after the encoding of a tuple was decoded, generateAccessBitsByBlocks is called
\* again for the same codes except that of one slot
CallGenerateWithSlotReplaced ==
    /\ pc = "parsed"
    /\ input.fn = "generateAccessBitsByBlocks"
    /\ \E k \in 0..3, code \in BlockInputs :
          /\ replaced' = [replaced |-> TRUE, block |-> k, code |-> code]
          /\ \E r \in {GenerateForTuple(WithSlot(input.blocks, k, code))} :
                 IF r.thrown
                 THEN pc' = "threw" /\ error' = r /\ UNCHANGED alternative
                 ELSE pc' = "replaced" /\ alternative' = r.value /\ UNCHANGED error
    /\ UNCHANGED <<input, accessBits, bitAnalysis, valueData, valueInfo, flipped, validation,
                   selectedBlock, selectedSector, earlierAnalysis, alternativeAnalysis, authVars>>

\* the second encoding is decoded too
CallParseAlternative ==
    /\ pc = "replaced"
    /\ alternativeAnalysis' = parseAccessBitsByBlock(alternative)
    /\ pc' = "reparsed"
    /\ UNCHANGED <<input, accessBits, error, bitAnalysis, valueData, valueInfo, flipped,
                   validation, alternative, selectedBlock, selectedSector, earlierAnalysis,
                   replaced, authVars>>

NextReplace ==
    \/ CallGenerateAccessBitsByBlocks
    \/ CallParseAccessBitsByBlock
    \/ CallGenerateWithSlotReplaced
    \/ CallParseAlternative

SpecReplace == InitBaseTuples /\ [][NextReplace]_vars

\* every call of generateAccessBitsByBlocks of InitAccess
InitEncoder == InitAccess /\ input.fn = "generateAccessBitsByBlocks"

\* one of the 24 bits of the field generateAccessBitsByBlocks returned flips in
\* storage; the card dump then holds the corrupted field
FlipAccessBit ==
    /\ pc = "returned"
    /\ input.fn = "generateAccessBitsByBlocks"
    /\ \E pos \in 0..23 :
          /\ accessBits' = FlipBitOf(accessBits, pos)
          /\ flipped' = pos
    /\ pc' = "field"
    /\ UNCHANGED <<input, error, bitAnalysis, valueData, valueInfo, validation, alternative,
                   selectedBlock, selectedSector, earlierAnalysis, replaced,
                   alternativeAnalysis, authVars>>

NextCorrupt ==
    \/ CallGenerateAccessBitsByBlocks
    \/ FlipAccessBit
    \/ CallValidateAccessBits

SpecCorrupt == InitEncoder /\ [][NextCorrupt]_vars

-----------------------------------------------------------------------------
(* Callers that validate and decode a stored field and encode its codes again *)

\* the nibbles the stored fields are made of: 0, F, 5, A, ... (each with its complement)
NumNibbleSamples == 4

NibbleOrder == <<0, 15, 5, 10, 3, 12, 6, 9>>

NibbleSamples == {NibbleOrder[k] : k \in 1..NumNibbleSamples}

NibbleBytes == {16 * high + low : high \in NibbleSamples, low \in NibbleSamples}

InitStored ==
    /\ pc = "field"
    /\ input \in [fn : {"field"}, bytes : NibbleBytes \X NibbleBytes \X NibbleBytes]
    /\ accessBits = FieldOf(input.bytes)
    /\ error = NoError
    /\ bitAnalysis = NoAnalysis
    /\ valueData = <<>>
    /\ valueInfo = NoInfo
    /\ flipped = 0 - 1
    /\ validation = NoValidation
    /\ alternative = <<>>
    /\ selectedBlock = 0
    /\ selectedSector = 0
    /\ earlierAnalysis = NoAnalysis
    /\ replaced = NoReplacement
    /\ alternativeAnalysis = NoAnalysis
    /\ Mounted

\* the four codes of a decoding, in the order of the encoder's arguments
CodesOf(analysis) ==
    <<analysis.block0.bits.value, analysis.block1.bits.value,
      analysis.block2.bits.value, analysis.trailer.bits.value>>

\* after a validated field was decoded, its four codes go to generateAccessBitsByBlocks
CallGenerateFromDecoded ==
    /\ pc = "parsed"
    /\ validation # NoValidation
    /\ \E r \in {GenerateForTuple(CodesOf(bitAnalysis))} :
          IF r.thrown
          THEN pc' = "threw" /\ error' = r /\ UNCHANGED alternative
          ELSE pc' = "reencoded" /\ alternative' = r.value /\ UNCHANGED error
    /\ UNCHANGED <<input, accessBits, bitAnalysis, valueData, valueInfo, flipped, validation,
                   selectedBlock, selectedSector, earlierAnalysis, replaced,
                   alternativeAnalysis, authVars>>

NextReverse ==
    \/ CallValidateAccessBits
    \/ CallParseEffectiveAccessBits
    \/ CallGenerateFromDecoded

SpecReverse == InitStored /\ [][NextReverse]_vars

-----------------------------------------------------------------------------
(* Callers of the value-block codec *)

InitValue ==
    /\ \/ /\ pc = "call"
          /\ input \in [fn : {"createValueBlock"}, value : ValueInputs, address : AddressInputs]
          /\ valueData = <<>>
       \/ /\ pc = "block"
          /\ input \in [fn : {"block"},
                        words : WordInputs \X WordInputs \X WordInputs,
                        addrs : {<<a, b, c, d>> : a \in {0, 5}, b \in AddressBytes,
                                                  c \in {0, 5}, d \in {250, 255}},
                        length : {32}]
          /\ valueData = BlockOf(input.words, input.addrs)
       \/ /\ pc = "block"
          /\ input \in [fn : {"block"},
                        words : {<<w, <<155, 255, 255, 255>>, <<100, 0, 0, 0>> >> : w \in WordInputs},
                        addrs : {<<5, 250, 5, 250>>},
                        length : BlockLengths]
          /\ valueData = Resize(BlockOf(input.words, input.addrs), input.length)
    /\ accessBits = <<>>
    /\ error = NoError
    /\ bitAnalysis = NoAnalysis
    /\ valueInfo = NoInfo
    /\ flipped = 0 - 1
    /\ validation = NoValidation
    /\ alternative = <<>>
    /\ selectedBlock = 0
    /\ selectedSector = 0
    /\ earlierAnalysis = NoAnalysis
    /\ replaced = NoReplacement
    /\ alternativeAnalysis = NoAnalysis
    /\ Mounted

CallCreateValueBlock ==
    /\ pc = "call"
    /\ input.fn = "createValueBlock"
    /\ valueData' = createValueBlock(input.value, input.address)
    /\ pc' = "created"
    /\ UNCHANGED <<input, accessBits, error, bitAnalysis, valueInfo, flipped, validation,
                   alternative, selectedBlock, selectedSector,
                   earlierAnalysis, replaced, alternativeAnalysis, authVars>>

\* one stored bit of the block changes between the write and the read
FlipStoredBit ==
    /\ pc = "created"
    /\ \E pos \in 0..127 :
          /\ valueData' = FlipBitOf(valueData, pos)
          /\ flipped' = pos
    /\ pc' = "corrupted"
    /\ UNCHANGED <<input, accessBits, error, bitAnalysis, valueInfo, validation, alternative,
                   selectedBlock, selectedSector,
                   earlierAnalysis, replaced, alternativeAnalysis, authVars>>

CallParseValueBlock ==
    /\ pc \in {"created", "corrupted", "block"}
    /\ valueInfo' = parseValueBlock(valueData)
    /\ pc' = "decoded"
    /\ UNCHANGED <<input, accessBits, error, bitAnalysis, valueData, flipped, validation,
                   alternative, selectedBlock, selectedSector,
                   earlierAnalysis, replaced, alternativeAnalysis, authVars>>

NextValue ==
    \/ CallCreateValueBlock
    \/ FlipStoredBit
    \/ CallParseValueBlock

SpecValue == InitValue /\ [][NextValue]_vars

-----------------------------------------------------------------------------
(* The memory page: selection of a block and of a sector *)

codecVars == <<pc, input, accessBits, error, bitAnalysis, valueData, valueInfo, flipped,
               validation, alternative, earlierAnalysis, replaced, alternativeAnalysis,
               authVars>>

InitMemory ==
    /\ pc = "page"
    /\ input = [fn |-> "MemoryPage"]
    /\ accessBits = <<>>
    /\ error = NoError
    /\ bitAnalysis = NoAnalysis
    /\ valueData = <<>>
    /\ valueInfo = NoInfo
    /\ flipped = 0 - 1
    /\ validation = NoValidation
    /\ alternative = <<>>
    /\ selectedBlock = 0
    /\ selectedSector = 0
    /\ earlierAnalysis = NoAnalysis
    /\ replaced = NoReplacement
    /\ alternativeAnalysis = NoAnalysis
    /\ Mounted

\* memoryData.findIndex(block => block.sector === sector)
FindIndexOfSector(sector) ==
    IF \E i \in 1..Len(memoryData) : memoryData[i].sector = sector
    THEN (CHOOSE i \in 1..Len(memoryData) :
              /\ memoryData[i].sector = sector
              /\ \A j \in 1..(i - 1) : memoryData[j].sector # sector) - 1
    ELSE 0 - 1

\* a click on row blockIndex of the hex editor: onBlockSelect(blockIndex)
SelectBlock ==
    /\ pc = "page"
    /\ \E blockIndex \in 0..(Len(memoryData) - 1) : selectedBlock' = blockIndex
    /\ UNCHANGED <<codecVars, selectedSector>>

\* a click on a button of the memory map: handleSectorSelect(sector)
handleSectorSelect ==
    /\ pc = "page"
    /\ \E sector \in 0..15 :
          /\ selectedSector' = sector
          /\ LET firstBlockInSector == FindIndexOfSector(sector)
             IN  IF firstBlockInSector # 0 - 1
                 THEN selectedBlock' = firstBlockInSector
                 ELSE UNCHANGED selectedBlock
    /\ UNCHANGED codecVars

\* const selectedBlockData = selectedBlock !== null ? memoryData[selectedBlock] : null
selectedBlockData == memoryData[selectedBlock + 1]

\* String.prototype.substring(start, end) for 0 <= start <= end
substring(str, start, end) ==
    SubSeq(str, start + 1, IF end > Len(str) THEN Len(str) ELSE end)

\* the entry memoryData.find(...) returns at index i (from 1) of data
TrailerInfoAt(data, i) ==
    [data[i] EXCEPT !.accessBits = substring(data[i].data, 12, 18),
                    !.keyA = substring(data[i].data, 0, 12),
                    !.keyB = substring(data[i].data, 20, 32)]

\* the tests of the find callback of getSectorTrailerInfo
IsTrailerOf(entry, sectorNumber) == entry.sector = sectorNumber /\ entry.type = "trailer"

\* getSectorTrailerInfo(sectorNumber, memoryData); [null |-> TRUE] is null
getSectorTrailerInfo(sectorNumber, data) ==
    IF \E i \in 1..Len(data) : IsTrailerOf(data[i], sectorNumber)
    THEN TrailerInfoAt(data, CHOOSE i \in 1..Len(data) :
                                 /\ IsTrailerOf(data[i], sectorNumber)
                                 /\ \A j \in 1..(i - 1) : ~IsTrailerOf(data[j], sectorNumber))
    ELSE [null |-> TRUE]

\* const selectedTrailerInfo = selectedSector !== null ? getSectorTrailerInfo(...) : null
selectedTrailerInfo == getSectorTrailerInfo(selectedSector, memoryData)

NextMemory ==
    \/ SelectBlock
    \/ handleSectorSelect

SpecMemory == InitMemory /\ [][NextMemory]_vars

-----------------------------------------------------------------------------
(* The authentication page: playback of authSteps                          *)
(* (src/app/authentication/page.tsx, AuthenticationPage)                   *)

\* the ids of the entries of authSteps
authSteps == <<1, 2, 3, 4, 5>>

\* authSteps.length - 1
LastStep == Len(authSteps) - 1

\* the number of intervals the browser hands out
MaxTimers == 5

\* everything but the state of AuthenticationPage
outsideAuth == <<pc, input, accessBits, error, bitAnalysis, valueData, valueInfo, flipped,
                 validation, alternative, selectedBlock, selectedSector, earlierAnalysis,
                 replaced, alternativeAnalysis>>

InitAuth ==
    /\ pc = "auth"
    /\ input = [fn |-> "AuthenticationPage"]
    /\ accessBits = <<>>
    /\ error = NoError
    /\ bitAnalysis = NoAnalysis
    /\ valueData = <<>>
    /\ valueInfo = NoInfo
    /\ flipped = 0 - 1
    /\ validation = NoValidation
    /\ alternative = <<>>
    /\ selectedBlock = 0
    /\ selectedSector = 0
    /\ earlierAnalysis = NoAnalysis
    /\ replaced = NoReplacement
    /\ alternativeAnalysis = NoAnalysis
    /\ Mounted

\* the effect without its else branch: playback is never switched off
RunEffectWithoutStop ==
    /\ pc = "auth"
    /\ effectPending
    /\ IF isPlaying /\ currentStep < LastStep
       THEN /\ timers' = timers + 1
            /\ interval' = timers + 1
       ELSE /\ interval' = 0
            /\ UNCHANGED timers
    /\ effectPending' = FALSE
    /\ UNCHANGED <<outsideAuth, currentStep, isPlaying>>

\* the effect on [isPlaying, currentStep]: the cleanup of the previous run
\* (clearInterval), then a new interval while playing below the last step, or
\* setIsPlaying(false) at the last step, which renders again when it changes
\* isPlaying
RunEffect ==
    /\ pc = "auth"
    /\ effectPending
    /\ IF isPlaying /\ currentStep < LastStep
       THEN /\ timers' = timers + 1
            /\ interval' = timers + 1
            /\ effectPending' = FALSE
            /\ UNCHANGED isPlaying
       ELSE IF currentStep >= LastStep
       THEN /\ isPlaying' = FALSE
            /\ effectPending' = isPlaying
            /\ interval' = 0
            /\ UNCHANGED timers
       ELSE /\ interval' = 0
            /\ effectPending' = FALSE
            /\ UNCHANGED <<isPlaying, timers>>
    /\ UNCHANGED <<outsideAuth, currentStep>>

\* the callback of setInterval, 4000 ms after the effect set it:
\* setCurrentStep((prev) => prev + 1); effects are flushed long before it
TimerTick ==
    /\ pc = "auth"
    /\ interval # 0
    /\ ~effectPending
    /\ timers < MaxTimers
    /\ currentStep' = currentStep + 1
    /\ effectPending' = TRUE
    /\ UNCHANGED <<outsideAuth, isPlaying, interval, timers>>

\* a click on the play / pause button
togglePlayPause ==
    /\ pc = "auth"
    /\ timers < MaxTimers
    /\ isPlaying' = ~isPlaying
    /\ effectPending' = TRUE
    /\ UNCHANGED <<outsideAuth, currentStep, interval, timers>>

\* a click on the reset button
resetAnimation ==
    /\ pc = "auth"
    /\ currentStep' = 0
    /\ isPlaying' = FALSE
    /\ effectPending' = (effectPending \/ currentStep # 0 \/ isPlaying)
    /\ UNCHANGED <<outsideAuth, interval, timers>>

\* a click on the button of step stepIndex in the list of steps
goToStep ==
    /\ pc = "auth"
    /\ \E stepIndex \in 0..(Len(authSteps) - 1) :
          /\ currentStep' = stepIndex
          /\ effectPending' = (effectPending \/ currentStep # stepIndex \/ isPlaying)
    /\ isPlaying' = FALSE
    /\ UNCHANGED <<outsideAuth, interval, timers>>

NextAuth ==
    \/ RunEffect
    \/ TimerTick
    \/ togglePlayPause
    \/ resetAnimation
    \/ goToStep

SpecAuth == InitAuth /\ [][NextAuth]_vars

\* React runs every pending effect, and the browser fires every interval that
\* stays set
SpecAuthFair == SpecAuth /\ WF_vars(RunEffect) /\ WF_vars(TimerTick)

Init == InitAccess \/ InitValue \/ InitMemory

Next == NextAccess \/ NextValue \/ NextMemory

Spec == Init /\ [][Next]_vars

-----------------------------------------------------------------------------
(* Vocabulary of the properties *)

\* bit k of a byte (bit 0 is the least significant)
Bit(byte, k) == (byte \div Pow2(k)) % 2

\* byte i (from 0) of a string of two hex characters per byte
ByteAt(str, i) == parseInt16(SubSeq(str, 2 * i + 1, 2 * i + 2))

\* the entry of block n of a decoding (n = 3 is the trailer)
Slot(analysis, n) ==
    IF n = 0 THEN analysis.block0
    ELSE IF n = 1 THEN analysis.block1
    ELSE IF n = 2 THEN analysis.block2
    ELSE analysis.trailer

\* the C1, C2, C3 bits of a code 0..7
CodeC1(code) == (code \div 4) % 2
CodeC2(code) == (code \div 2) % 2
CodeC3(code) == code % 2

Encoded == pc = "returned" /\ input.fn = "generateAccessBitsByBlocks"

DecodedFromCodes == pc = "parsed" /\ input.fn = "generateAccessBitsByBlocks"

DecodedFromField == pc = "parsed" /\ input.fn = "field"

-----------------------------------------------------------------------------
(* Properties of the access-bits codec, checked under SpecAccess *)

\* C1: decoding the bytes generateAccessBitsByBlocks produced for four codes in
\* 0..7 returns exactly those codes, slot by slot, each slot flagged consistent.
C1_AccessBitsRoundTrip ==
    DecodedFromCodes =>
        \A n \in 0..3 :
            LET bits == Slot(bitAnalysis, n).bits
                code == input.blocks[n + 1]
            IN  /\ bits.value = code
                /\ bits.c1 = CodeC1(code)
                /\ bits.c2 = CodeC2(code)
                /\ bits.c3 = CodeC3(code)
                /\ bits.valid

C1_Witness ==
    /\ DecodedFromCodes
    /\ input.blocks = <<0, 1, 2, 3>>
    /\ bitAnalysis.block1.bits.value = 1
    /\ bitAnalysis.trailer.bits.value = 3
    /\ bitAnalysis.trailer.bits.valid

\* C2 as stated: in the encoded bytes, for every slot n, b6 bit n = NOT c1[n] and
\* bit n+4 = NOT c2[n]; b7 bit n = c1[n] and bit n+4 = NOT c3[n]; b8 bit n = c2[n]
\* and bit n+4 = c3[n].
C2_LayoutAsStated ==
    Encoded =>
        \A n \in 0..3 :
            LET code == input.blocks[n + 1]
            IN  /\ Bit(ByteAt(accessBits, 0), n) = 1 - CodeC1(code)
                /\ Bit(ByteAt(accessBits, 0), n + 4) = 1 - CodeC2(code)
                /\ Bit(ByteAt(accessBits, 1), n) = CodeC1(code)
                /\ Bit(ByteAt(accessBits, 1), n + 4) = 1 - CodeC3(code)
                /\ Bit(ByteAt(accessBits, 2), n) = CodeC2(code)
                /\ Bit(ByteAt(accessBits, 2), n + 4) = CodeC3(code)

\* C2 amended: as stated for b6 and b8, but in b7 the two nibbles are the other
\* way round: b7 bit n = NOT c3[n] and b7 bit n+4 = c1[n].
C2_LayoutAmended ==
    Encoded =>
        \A n \in 0..3 :
            LET code == input.blocks[n + 1]
            IN  /\ Bit(ByteAt(accessBits, 0), n) = 1 - CodeC1(code)
                /\ Bit(ByteAt(accessBits, 0), n + 4) = 1 - CodeC2(code)
                /\ Bit(ByteAt(accessBits, 1), n) = 1 - CodeC3(code)
                /\ Bit(ByteAt(accessBits, 1), n + 4) = CodeC1(code)
                /\ Bit(ByteAt(accessBits, 2), n) = CodeC2(code)
                /\ Bit(ByteAt(accessBits, 2), n + 4) = CodeC3(code)

C2_Witness ==
    /\ Encoded
    /\ input.blocks = <<4, 5, 6, 7>>
    /\ ByteAt(accessBits, 1) = 245

\* C3: for any three bytes the decoder returns, for each slot, the (c1, c2, c3)
\* read from those bytes, and flags the slot consistent exactly when the stored
\* complement bits are the negations of these.
C3_DecodeReportsInput ==
    DecodedFromField =>
        \A n \in 0..3 :
            LET bits == Slot(bitAnalysis, n).bits
                c1 == Bit(input.bytes[2], n + 4)
                c2 == Bit(input.bytes[3], n)
                c3 == Bit(input.bytes[3], n + 4)
                consistent == /\ Bit(input.bytes[1], n) = 1 - c1
                              /\ Bit(input.bytes[1], n + 4) = 1 - c2
                              /\ Bit(input.bytes[2], n) = 1 - c3
            IN  /\ bits.c1 = c1
                /\ bits.c2 = c2
                /\ bits.c3 = c3
                /\ bits.valid = consistent

\* the C1C2C3 strings of the codes 0..7
CodeStrings == [1..3 -> {"0", "1"}]

\* C4: a call of generateAccessBitsByBlocks with any code outside 0..7 throws,
\* hands back no bytes and names an offending block (the first one); a call of
\* generateOfficialAccessBits with anything but the string of a code 0..7 (so
\* with "8", "-1", "1000") throws and hands back no bytes.
C4_RangeRejection ==
    /\ (/\ input.fn = "generateAccessBitsByBlocks"
        /\ pc # "call"
        /\ \E i \in 1..4 : input.blocks[i] \notin 0..7)
         => /\ pc = "threw"
            /\ accessBits = <<>>
            /\ bitAnalysis = NoAnalysis
            /\ error.thrown
            /\ error.error.index \in 0..3
            /\ input.blocks[error.error.index + 1] \notin 0..7
            /\ error.error.received = input.blocks[error.error.index + 1]
            /\ \A j \in 1..error.error.index : input.blocks[j] \in 0..7
    /\ (/\ input.fn = "generateOfficialAccessBits"
        /\ pc # "call"
        /\ input.c1c2c3 \notin CodeStrings)
         => /\ pc = "threw"
            /\ accessBits = <<>>
            /\ bitAnalysis = NoAnalysis
            /\ error.thrown

C4_Witness ==
    /\ pc = "threw"
    /\ input.fn = "generateAccessBitsByBlocks"
    /\ input.blocks = <<3, 5, 8, 2>>
    /\ error.error.index = 2
    /\ accessBits = <<>>

\* Table 6 as the claim lists it, row code + 1: <<read, write, increment, decrement>>
Table6 ==
    << <<"Key A|Key B", "Key A|Key B", "Key A|Key B", "Key A|Key B">>,
       <<"Key A|Key B", "Forbidden", "Forbidden", "Key A|Key B">>,
       <<"Key A|Key B", "Forbidden", "Forbidden", "Forbidden">>,
       <<"Key B", "Key B", "Forbidden", "Forbidden">>,
       <<"Key A|Key B", "Key B", "Forbidden", "Forbidden">>,
       <<"Key B", "Forbidden", "Forbidden", "Forbidden">>,
       <<"Key A|Key B", "Key B", "Key B", "Key A|Key B">>,
       <<"Forbidden", "Forbidden", "Forbidden", "Forbidden">> >>

\* C5: the permissions looked up for a data block with code C1C2C3 are the row
\* of that code in the data-block table of the claim.
C5_DataBlockTable ==
    pc = "parsed" =>
        \A n \in 0..2 :
            LET e == Slot(bitAnalysis, n)
                p == e.permissions
            IN  <<p.read, p.write, p.increment, p.decrement>>
                    = Table6[4 * e.bits.c1 + 2 * e.bits.c2 + e.bits.c3 + 1]

C5_Witness ==
    /\ DecodedFromCodes
    /\ input.blocks = <<6, 3, 1, 0>>
    /\ bitAnalysis.block0.permissions.increment = "Key B"
    /\ bitAnalysis.block1.permissions.read = "Key B"
    /\ bitAnalysis.block2.permissions.decrement = "Key A|Key B"

\* Table 7 as the claim lists it, row code + 1: <<KeyA read, KeyA write,
\* AccessBits read, AccessBits write, KeyB read, KeyB write>>
Table7 ==
    << <<"Forbidden", "Key A", "Key A", "Forbidden", "Key A", "Key A">>,
       <<"Forbidden", "Key A", "Key A", "Key A", "Key A", "Key A">>,
       <<"Forbidden", "Forbidden", "Key A", "Forbidden", "Key A", "Forbidden">>,
       <<"Forbidden", "Key B", "Key A|Key B", "Key B", "Forbidden", "Key B">>,
       <<"Forbidden", "Key B", "Key A|Key B", "Forbidden", "Forbidden", "Key B">>,
       <<"Forbidden", "Forbidden", "Key A|Key B", "Key B", "Forbidden", "Forbidden">>,
       <<"Forbidden", "Forbidden", "Key A|Key B", "Forbidden", "Forbidden", "Forbidden">>,
       <<"Forbidden", "Forbidden", "Key A|Key B", "Forbidden", "Forbidden", "Forbidden">> >>

\* C6: the permissions looked up for a sector trailer with code C1C2C3 are the
\* row of that code in the sector-trailer table of the claim.
C6_SectorTrailerTable ==
    pc = "parsed" =>
        LET e == bitAnalysis.trailer
            p == e.permissions
        IN  <<p.keyA.read, p.keyA.write, p.accessBits.read, p.accessBits.write,
              p.keyB.read, p.keyB.write>>
                = Table7[4 * e.bits.c1 + 2 * e.bits.c2 + e.bits.c3 + 1]

C6_Witness ==
    /\ DecodedFromCodes
    /\ input.blocks = <<0, 0, 0, 3>>
    /\ bitAnalysis.trailer.permissions.accessBits.write = "Key B"
    /\ bitAnalysis.trailer.permissions.keyB.read = "Forbidden"

\* C7: whatever is decoded, no block's permissions are the error fallback row,
\* and the trailer's Key A is never readable.
C7_TablesCompleteKeyASecret ==
    pc = "parsed" =>
        /\ \A n \in 0..2 :
              LET p == Slot(bitAnalysis, n).permissions
              IN  "Error" \notin {p.read, p.write, p.increment, p.decrement}
        /\ LET p == bitAnalysis.trailer.permissions
           IN  /\ "Error" \notin {p.keyA.read, p.keyA.write, p.accessBits.read,
                                  p.accessBits.write, p.keyB.read, p.keyB.write}
               /\ p.keyA.read = "Forbidden"

C7_Witness ==
    /\ DecodedFromCodes
    /\ input.blocks = <<7, 7, 7, 7>>
    /\ bitAnalysis.trailer.bits.value = 7
    /\ bitAnalysis.trailer.permissions.keyA.read = "Forbidden"
    /\ bitAnalysis.block0.permissions.read = "Forbidden"

-----------------------------------------------------------------------------
(* Properties of the value-block codec, checked under SpecValue *)

Created == pc = "created" /\ flipped = 0 - 1

DecodedIntact == pc = "decoded" /\ input.fn = "createValueBlock" /\ flipped = 0 - 1

DecodedFromBlock == pc = "decoded" /\ input.fn = "block"

DecodedCorrupted == pc = "decoded" /\ flipped >= 0

NoFlag == [valueInverted |-> FALSE, valueBackup |-> FALSE,
           addrInverted |-> FALSE, addrBackup |-> FALSE]

\* C8: parseValueBlock(createValueBlock(v, a)) returns value = v and addr = a,
\* isValid true and none of the four validationErrors flags set, for every signed
\* 32-bit v and every a in 0..255.
C8_ValueRoundTrip ==
    DecodedIntact =>
        /\ ~valueInfo.null
        /\ valueInfo.value = input.value
        /\ valueInfo.addr = input.address
        /\ valueInfo.isValid
        /\ valueInfo.validationErrors = NoFlag

\* C9: a block read back with one bit flipped in bytes 4..7 is reported invalid
\* with the valueInverted flag alone; with one bit flipped in bytes 8..11,
\* invalid with the valueBackup flag alone.
C9_MalformedDetection ==
    DecodedCorrupted =>
        /\ flipped \in 32..63 =>
              /\ ~valueInfo.isValid
              /\ valueInfo.validationErrors = [NoFlag EXCEPT !.valueInverted = TRUE]
        /\ flipped \in 64..95 =>
              /\ ~valueInfo.isValid
              /\ valueInfo.validationErrors = [NoFlag EXCEPT !.valueBackup = TRUE]

C9_Witness ==
    /\ DecodedCorrupted
    /\ flipped = 71
    /\ input.value = Num(0 - 1, 65535)
    /\ ~valueInfo.isValid
    /\ valueInfo.validationErrors.valueBackup
    /\ ~valueInfo.validationErrors.valueInverted

\* the four bytes, least significant first, of a number taken mod 2^32
LittleEndian(n) ==
    <<n.lo % 256, n.lo \div 256, (n.hi % 65536) % 256, (n.hi % 65536) \div 256>>

\* C10: createValueBlock(value, address) yields 16 bytes: value mod 2^32 little
\* endian, its bitwise NOT little endian, the value again, then address,
\* NOT address mod 256, address, NOT address.
C10_ValueBlockLayout ==
    Created =>
        /\ Len(valueData) = 32
        /\ \A i \in 1..32 : IsHexDigit(valueData[i])
        /\ \A k \in 0..3 :
              /\ ByteAt(valueData, k) = LittleEndian(input.value)[k + 1]
              /\ ByteAt(valueData, 4 + k) = 255 - LittleEndian(input.value)[k + 1]
              /\ ByteAt(valueData, 8 + k) = ByteAt(valueData, k)
        /\ ByteAt(valueData, 12) = input.address
        /\ ByteAt(valueData, 13) = 255 - input.address
        /\ ByteAt(valueData, 14) = ByteAt(valueData, 12)
        /\ ByteAt(valueData, 15) = ByteAt(valueData, 13)

C10_Witness ==
    /\ Created
    /\ input.value = Num(0 - 2779, 21945)
    /\ input.address = 42
    /\ ByteAt(valueData, 0) = 185
    /\ ByteAt(valueData, 3) = 245
    /\ ByteAt(valueData, 13) = 213

\* C11: a block string of 16 bytes (32 hex characters) is always decoded to a
\* record, never to null, and the record's isValid is true exactly when none of
\* the flags valueInverted, valueBackup, addrInverted, addrBackup is set.
C11_SizedInputDecodes ==
    (pc = "decoded" /\ Len(valueData) = 32) =>
        /\ ~valueInfo.null
        /\ valueInfo.isValid <=> (valueInfo.validationErrors = NoFlag)

C11_Witness ==
    /\ DecodedFromBlock
    /\ input.words = << <<100, 0, 0, 0>>, <<155, 255, 255, 255>>, <<100, 0, 0, 0>> >>
    /\ input.addrs = <<5, 250, 0, 250>>
    /\ ~valueInfo.null
    /\ ~valueInfo.isValid
    /\ valueInfo.validationErrors = [NoFlag EXCEPT !.addrBackup = TRUE]

\* the text of a string of hex digits given as a sequence of nibbles
HexText(nibbles) == [i \in 1..Len(nibbles) |-> HexUpper[nibbles[i] + 1]]

\* C13 as stated: generateOfficialAccessBits('000'), which is also what
\* generateValidAccessBits('default') returns, is FF0780.
C13_DefaultVectorAsStated ==
    /\ (pc = "returned" /\ input.fn = "generateOfficialAccessBits"
            /\ input.c1c2c3 = <<"0", "0", "0">>)
         => accessBits = HexText(<<15, 15, 0, 7, 8, 0>>)
    /\ (pc = "returned" /\ input.fn = "generateValidAccessBits" /\ input.mode = "default")
         => accessBits = HexText(<<15, 15, 0, 7, 8, 0>>)

\* C13 amended: generateOfficialAccessBits('000') and generateValidAccessBits('default')
\* both return FF0F00; FF0780 is what generateAccessBitsByBlocks(0, 0, 0, 1) returns
\* (code 0 for the three data blocks, code 1 for the trailer).
C13_DefaultVectorAmended ==
    /\ (pc = "returned" /\ input.fn = "generateOfficialAccessBits"
            /\ input.c1c2c3 = <<"0", "0", "0">>)
         => accessBits = HexText(<<15, 15, 0, 15, 0, 0>>)
    /\ (pc = "returned" /\ input.fn = "generateValidAccessBits" /\ input.mode = "default")
         => accessBits = HexText(<<15, 15, 0, 15, 0, 0>>)
    /\ (pc = "returned" /\ input.fn = "generateAccessBitsByBlocks"
            /\ input.blocks = <<0, 0, 0, 1>>)
         => accessBits = HexText(<<15, 15, 0, 7, 8, 0>>)

C13_Witness ==
    /\ pc = "returned"
    /\ input.fn = "generateValidAccessBits"
    /\ input.mode = "default"
    /\ accessBits = <<"F", "F", "0", "F", "0", "0">>

Validated == pc = "validated"

\* slot n of the field b6 b7 b8 is well formed: the complements of the c1, c2, c3
\* it holds are the complement bits it stores
SlotWellFormed(b6, b7, b8, n) ==
    /\ Bit(b6, n) = 1 - Bit(b7, n + 4)
    /\ Bit(b6, n + 4) = 1 - Bit(b8, n)
    /\ Bit(b7, n) = 1 - Bit(b8, n + 4)

\* C14: for every access-bits field of 6 hex digits, validateAccessBits answers
\* valid = true exactly when every slot 0..3 is well formed; one slot that is not
\* makes the field invalid.
C14_WellFormedness ==
    (Validated /\ Len(accessBits) = 6 /\ \A i \in 1..6 : IsHexDigit(accessBits[i])) =>
        (validation.valid <=>
            \A n \in 0..3 :
                SlotWellFormed(ByteAt(accessBits, 0), ByteAt(accessBits, 1),
                               ByteAt(accessBits, 2), n))

C14_Witness ==
    /\ Validated
    /\ input.fn = "field"
    /\ input.bytes = <<255, 15, 128>>
    /\ ~validation.valid
    /\ validation.details = <<[block |-> 3, bit |-> "C3"]>>

\* C16: for every code c in 0..7, generateOfficialAccessBits of the 3-bit binary
\* string of c returns the same three bytes as generateAccessBitsByBlocks(c, c, c, c).
C16_UniformIsMixedRepeated ==
    pc = "uniform" => alternative = accessBits

C16_Witness ==
    /\ pc = "uniform"
    /\ input.blocks = <<4, 4, 4, 4>>
    /\ alternative = <<"F", "0", "F", "F", "0", "0">>
    /\ accessBits = alternative

\* the nibble holding bit(code of slot 3), ..., bit(code of slot 0) from its
\* bit 3 down to its bit 0, for bit = c1, c2 or c3 of the four codes
NibbleC1(blocks) == 8 * CodeC1(blocks[4]) + 4 * CodeC1(blocks[3]) + 2 * CodeC1(blocks[2]) + CodeC1(blocks[1])
NibbleC2(blocks) == 8 * CodeC2(blocks[4]) + 4 * CodeC2(blocks[3]) + 2 * CodeC2(blocks[2]) + CodeC2(blocks[1])
NibbleC3(blocks) == 8 * CodeC3(blocks[4]) + 4 * CodeC3(blocks[3]) + 2 * CodeC3(blocks[2]) + CodeC3(blocks[1])

\* C17: in the output of generateAccessBitsByBlocks the high nibble of byte 7 is
\* C1 of slots 3,2,1,0 and its low nibble is NOT C3 of slots 3,2,1,0; byte 6 is
\* NOT C2 (high nibble) and NOT C1 (low nibble); byte 8 is C3 (high) and C2 (low).
C17_Byte7AsDocumented ==
    Encoded =>
        /\ ByteAt(accessBits, 1) = 16 * NibbleC1(input.blocks) + (15 - NibbleC3(input.blocks))
        /\ ByteAt(accessBits, 0) =
               16 * (15 - NibbleC2(input.blocks)) + (15 - NibbleC1(input.blocks))
        /\ ByteAt(accessBits, 2) = 16 * NibbleC3(input.blocks) + NibbleC2(input.blocks)

C17_Witness ==
    /\ Encoded
    /\ input.blocks = <<1, 2, 4, 7>>
    /\ ByteAt(accessBits, 1) = 198
    /\ accessBits = <<"5", "3", "C", "6", "9", "A">>

Rejected ==
    \/ Len(accessBits) # 6
    \/ \E i \in 1..6 : ~IsHexDigit(accessBits[i])
    \/ \E n \in 0..3 :
          ~SlotWellFormed(ByteAt(accessBits, 0), ByteAt(accessBits, 1), ByteAt(accessBits, 2), n)

\* C19: for every input validateAccessBits rejects, parseAccessBitsByBlock returns
\* exactly what it returns for generateValidAccessBits('default'): all four slots
\* code 0 (c1 = c2 = c3 = 0) with valid = true; and no decoding at all has a slot
\* with valid = false.
C19_SilentFallback ==
    pc = "parsed" =>
        /\ Rejected =>
              /\ bitAnalysis = parseAccessBitsByBlock(generateValidAccessBits("default"))
              /\ \A n \in 0..3 :
                    LET bits == Slot(bitAnalysis, n).bits
                    IN  bits.value = 0 /\ bits.c1 = 0 /\ bits.c2 = 0 /\ bits.c3 = 0
        /\ (validation # NoValidation /\ ~validation.valid) => Rejected
        /\ \A n \in 0..3 : Slot(bitAnalysis, n).bits.valid

C19_Witness ==
    /\ DecodedFromField
    /\ input.bytes = <<255, 255, 255>>
    /\ validation = NoValidation
    /\ bitAnalysis.trailer.bits.value = 0
    /\ bitAnalysis.trailer.bits.valid
    /\ bitAnalysis.block0.bits.c1 = 0

\* C20: for every four codes in 0..7, createAccessBitsFromPermissions applied to
\* the (c1, c2, c3) bits of the codes (c1 = bit 2, c2 = bit 1, c3 = bit 0) returns
\* the same three bytes as generateAccessBitsByBlocks applied to the codes, equal
\* codes or not.
C20_MixedEncodersAgree ==
    pc = "permissions" => alternative = accessBits

C20_Witness ==
    /\ pc = "permissions"
    /\ input.blocks = <<0, 1, 2, 3>>
    /\ alternative = <<"3", "F", "0", "5", "A", "C">>
    /\ accessBits = alternative

\* both copies of the decoder have decoded the field generateAccessBitsByBlocks
\* returned
DecodedByBothCopies == DecodedFromCodes /\ earlierAnalysis # NoAnalysis

\* C21: on the encoding of a uniform code c in 0..7 (the same code in all four
\* slots) the first copy of parseAccessBitsByBlock, which reads the digits 4 + n,
\* 12 + n and 20 + n of the binary string, decodes in every slot n the same
\* code as the second copy, which shifts and masks the three bytes.
C21_CopiesAgreeOnUniform ==
    (DecodedByBothCopies /\ \A i \in 2..4 : input.blocks[i] = input.blocks[1]) =>
        \A n \in 0..3 :
            Slot(earlierAnalysis, n).bits.value = Slot(bitAnalysis, n).bits.value

\* C22: the sector-trailer branch of the first copy's getPermissionsByBits
\* reports reading key A as forbidden for every code 0..7.
C22_EarlierKeyANeverRead ==
    (earlierAnalysis # NoAnalysis /\ earlierAnalysis.trailer.bits.value \in 0..7) =>
        earlierAnalysis.trailer.permissions.readA = "Forbidden"

-----------------------------------------------------------------------------
(* Properties of the encoder under replacement of one code, checked under SpecReplace *)

\* both encodings, of the tuple and of the tuple with one slot replaced, are decoded
Reparsed == pc = "reparsed"

\* C23: replacing the code of slot k only, in a tuple of codes 0..7, changes at
\* most the bits k and k + 4 of each of the three bytes generateAccessBitsByBlocks
\* returns; every other bit, and with it the decoded code and the consistency
\* flag of every other slot, stays as it was.
C23_SlotIndependence ==
    Reparsed =>
        /\ \A i \in 0..2 : \A j \in 0..7 :
               (j # replaced.block /\ j # replaced.block + 4) =>
                   Bit(ByteAt(alternative, i), j) = Bit(ByteAt(accessBits, i), j)
        /\ \A n \in 0..3 :
               n # replaced.block =>
                   /\ Slot(alternativeAnalysis, n).bits.value = Slot(bitAnalysis, n).bits.value
                   /\ Slot(alternativeAnalysis, n).bits.valid = Slot(bitAnalysis, n).bits.valid

\* slot 2 of (0, 5, 2, 7) replaced by 5: bits 2 and 6 of the bytes change
C23_Witness ==
    /\ Reparsed
    /\ input.blocks = <<0, 5, 2, 7>>
    /\ replaced.block = 2
    /\ replaced.code = 5
    /\ alternative # accessBits
    /\ Slot(alternativeAnalysis, 2).bits.value = 5

-----------------------------------------------------------------------------
(* Properties of validateAccessBits on corrupted fields, checked under SpecCorrupt *)

\* validateAccessBits has answered for a field with one flipped bit
ValidatedCorrupted == pc = "validated" /\ flipped >= 0

\* C24: after one of the 24 bits of a field generateAccessBitsByBlocks produced
\* for codes 0..7 was flipped, validateAccessBits answers valid = false, and
\* every inconsistency it reports names the slot (bit position mod 4) and no other.
C24_SingleBitDetected ==
    ValidatedCorrupted =>
        /\ ~validation.valid
        /\ Len(validation.details) > 0
        /\ \A i \in 1..Len(validation.details) :
               validation.details[i].block = flipped % 4

\* bit 6 of byte 7 of FF0F00 flipped (FF4F00): C1 of slot 2 is reported
C24_Witness ==
    /\ ValidatedCorrupted
    /\ input.blocks = <<0, 0, 0, 0>>
    /\ flipped = 14
    /\ accessBits = <<"F", "F", "4", "F", "0", "0">>
    /\ validation.details = <<[block |-> 2, bit |-> "C1"]>>

-----------------------------------------------------------------------------
(* Properties of decoding and encoding again, checked under SpecReverse *)

\* the codes decoded from a stored field were encoded again
Reencoded == pc = "reencoded"

\* C25: for every field of three bytes that validateAccessBits accepts, encoding
\* with generateAccessBitsByBlocks the four codes parseAccessBitsByBlock decoded
\* from it gives the same three bytes again.
C25_ReverseRoundTrip ==
    (Reencoded /\ validation.valid) =>
        /\ alternative = accessBits
        /\ \A i \in 0..2 : ByteAt(alternative, i) = input.bytes[i + 1]

\* the accepted field 5F0A5A holds the codes 1, 2, 1, 2
C25_Witness ==
    /\ Reencoded
    /\ validation.valid
    /\ input.bytes = <<95, 10, 90>>
    /\ CodesOf(bitAnalysis) = <<1, 2, 1, 2>>
    /\ alternative = <<"5", "F", "0", "A", "5", "A">>

-----------------------------------------------------------------------------
(* Properties of the value-block codec on corrupted blocks, checked under SpecValue *)

\* C26: after any one of the 128 bits of a block createValueBlock produced was
\* flipped, parseValueBlock returns a record with isValid = false and at least
\* one validationErrors flag set; a flip in bytes 0..3 sets both valueInverted
\* and valueBackup.
C26_AnyBitFlipDetected ==
    DecodedCorrupted =>
        /\ ~valueInfo.null
        /\ ~valueInfo.isValid
        /\ valueInfo.validationErrors # NoFlag
        /\ flipped \in 0..31 =>
              /\ valueInfo.validationErrors.valueInverted
              /\ valueInfo.validationErrors.valueBackup

\* bit 0 of byte 15 (the second copy of the inverted address) flipped: only the
\* address backup check fails
C26_Witness ==
    /\ DecodedCorrupted
    /\ flipped = 120
    /\ ~valueInfo.isValid
    /\ valueInfo.validationErrors = [NoFlag EXCEPT !.addrBackup = TRUE]

-----------------------------------------------------------------------------
(* Properties of both codecs, checked under Spec *)

\* C12: a block string that is not 16 bytes long is not decoded (parseValueBlock
\* hands back no record), and an access-bits text that is not 3 bytes long is
\* reported as a length error by the validation and is not decoded either: no
\* decoded record exists for it.
C12_WrongLengthRejected ==
    /\ (pc = "decoded" /\ Len(valueData) # 32) => valueInfo.null
    /\ (pc = "validated" /\ Len(accessBits) # 6) =>
           (~validation.valid /\ validation.error = "length")
    /\ (pc = "parsed" /\ Len(accessBits) # 6) => bitAnalysis = NoAnalysis

-----------------------------------------------------------------------------
(* Properties of the memory layout, checked under SpecMemory *)

\* C15: whichever block of memoryData is selected, its data is exactly 16 bytes
\* (32 hex characters), a sector trailer assembled as Key A + access bits + Key B
\* included.
C15_BlockSize ==
    pc = "page" => Len(selectedBlockData.data) = 32

\* the trailer entry memoryData declares for the selected sector (block 4 * sector + 3)
DeclaredTrailer == memoryData[4 * selectedSector + 4]

\* C27: for the selected sector, any of 0..15, getSectorTrailerInfo returns the
\* keyA, accessBits and keyB it slices from the trailer's data equal to the keyA,
\* accessBits and keyB the trailer entry declares, keyB being 6 bytes long.
C27_TrailerFieldsAgree ==
    pc = "page" =>
        /\ selectedTrailerInfo # [null |-> TRUE]
        /\ DeclaredTrailer.type = "trailer"
        /\ selectedTrailerInfo.keyA = DeclaredTrailer.keyA
        /\ selectedTrailerInfo.accessBits = DeclaredTrailer.accessBits
        /\ selectedTrailerInfo.keyB = DeclaredTrailer.keyB
        /\ Len(selectedTrailerInfo.keyB) = 12
\* C28: after any sequence of sector selections and block clicks the selected
\* block belongs to the selected sector, so the trailer whose access bits are
\* decoded for the selected block's permissions is the trailer of that block's
\* own sector.
C28_SelectedBlockInSelectedSector ==
    pc = "page" =>
        /\ selectedBlockData.sector = selectedSector
        /\ selectedTrailerInfo.sector = selectedBlockData.sector
-----------------------------------------------------------------------------
(* Properties of the playback of AuthenticationPage, checked under SpecAuthFair *)

AtLastStep == currentStep = LastStep

\* C29: under any interleaving of timer ticks, togglePlayPause, resetAnimation
\* and goToStep on existing steps, currentStep stays within
\* 0..authSteps.length - 1; a timer tick happens only while isPlaying is true
\* below the last index and advances currentStep by exactly one; no step but
\* resetAnimation or goToStep takes currentStep from the last index to 0; and
\* whenever playback is on at the last index it is eventually switched off.
C29_PlaybackStops ==
    /\ [](pc = "auth" => currentStep \in 0..LastStep)
    /\ [][TimerTick =>
             (isPlaying /\ currentStep < LastStep /\ currentStep' = currentStep + 1)]_vars
    /\ [][(AtLastStep /\ currentStep' = 0) => (resetAnimation \/ goToStep)]_vars
    /\ ((pc = "auth" /\ AtLastStep /\ isPlaying) ~> ~isPlaying)

\* playback ran from step 0 to the last step on four intervals and was switched off
C29_Witness ==
    /\ pc = "auth"
    /\ AtLastStep
    /\ ~isPlaying
    /\ ~effectPending
    /\ interval = 0
    /\ timers = LastStep
====
